---------------------------- MODULE Spec2Model ----------------------------
(***************************************************************************)
(* A model of the SPWN parser (src/src/parser.rs), of the bytecode         *)
(* interpreter loop (src/src/interpreter/interpreter.rs) and of the        *)
(* lockstep loop of run_func (src/src/vm/interpreter.rs).                  *)
(*                                                                         *)
(* ParseSpec: the token list is drawn in Init; parse() runs its            *)
(*   parse_statements loop one statement per step.                         *)
(* ExecSpec:  the program is drawn in Init; execute() runs one instruction *)
(*   per step, then the trailing stack dump.                               *)
(* RunFuncSpec: the instruction list and the contexts are drawn in Init;   *)
(*   run_func() runs one instruction of one context per step.              *)
(***************************************************************************)
EXTENDS Integers, Sequences, FiniteSets, TLC

VARIABLES
    tokens,      \* ParseData.tokens: the token list, each token with its span
    pos,         \* parse(): the position in the token list (0-based)
    ast,         \* ASTData: [exprs, stmts], the two arenas
    statements,  \* parse_statements(): the StmtKeys collected so far
    pstate,      \* "idle" | "parsing" | "ok" | "err" | "panic"
    perr,        \* the SyntaxError returned, or NoError
    code,        \* Code: the instruction list and its pools
    ctx,         \* execute(): index of the context being run (1-based)
    ip,          \* execute(): the instruction index i
    stack,       \* execute(): Vec<*mut StoredValue>
    memory,      \* Globals.memory: the slot map and its backing storage
    contexts,    \* Globals.contexts: per context, the variable bindings
    output,      \* lines written to standard output
    estate,      \* "idle" | "running" | "ok" | "err" | "panic" | "crash"
    eerr,        \* the RuntimeError returned, or NoError
    instructions,\* run_func(): code.funcs[fn_index].instructions
    full,        \* run_func(): the contexts of the FullContext, [pos, returned]
    cursor,      \* run_func(): the context the for loop of the pass has reached
    finished,    \* run_func(): let mut finished
    rstate,      \* "idle" | "entry" | "loop" | "pass_end" | "after" | "yeeted" | "cleaned" |
                 \* "ok" | "err" | "panic"
    startOf,     \* history: the contexts as they were when the pass began
    ran          \* history: the instructions run in the pass, [c, at, instr]

parseVars == <<tokens, pos, ast, statements, pstate, perr>>
execVars  == <<code, ctx, ip, stack, memory, contexts, output, estate, eerr>>
runVars   == <<instructions, full, cursor, finished, rstate, startOf, ran>>
vars      == <<tokens, pos, ast, statements, pstate, perr,
               code, ctx, ip, stack, memory, contexts, output, estate, eerr,
               instructions, full, cursor, finished, rstate, startOf, ran>>

NoError == [kind |-> "none"]

Min(S) == CHOOSE m \in S : \A n \in S : m <= n
Max(S) == CHOOSE m \in S : \A n \in S : m >= n

(***************************************************************************)
(*                               TOKENS                                    *)
(***************************************************************************)

\* A token of the lexer: its kind and its lexeme.
Tk(k, v) == [k |-> k, v |-> v]

TInt(n)    == Tk("Int", n)
TIdent(n)  == Tk("Ident", n)
TPlus      == Tk("Plus", "+")
TMinus     == Tk("Minus", "-")
TMult      == Tk("Mult", "*")
TDiv       == Tk("Div", "/")
TMod       == Tk("Mod", "%")
TPow       == Tk("Pow", "^")
TLParen    == Tk("LParen", "(")
TRParen    == Tk("RParen", ")")
TLSq       == Tk("LSqBracket", "[")
TRSq       == Tk("RSqBracket", "]")
TLBracket  == Tk("LBracket", "{")
TRBracket  == Tk("RBracket", "}")
TComma     == Tk("Comma", ",")
TLet       == Tk("Let", "let")
TIf        == Tk("If", "if")
TElse      == Tk("Else", "else")
TWhile     == Tk("While", "while")
TFor       == Tk("For", "for")
TIn        == Tk("In", "in")
TAssign    == Tk("Assign", "=")
TTrue      == Tk("True", "true")
TFalse     == Tk("False", "false")
TEol       == Tk("Eol", ";")
TEof       == Tk("Eof", "end of file")

\* Reading the token list outside its bounds panics in the code.
OutOfBounds == Tk("<out of bounds>", "")

\* Token::tok_typ: the class of a token, as shown in a SyntaxError.
tok_typ(t) ==
    CASE t.k \in {"Int", "Float", "String", "True", "False"} -> "literal"
      [] t.k = "Ident" -> "identifier"
      [] t.k \in {"Let", "If", "Else", "While", "For", "In"} -> "keyword"
      [] t.k \in {"Plus", "Minus", "Mult", "Div", "Mod", "Pow", "Assign"} -> "operator"
      [] t.k = "Eol" -> "terminator"
      [] t.k = "Eof" -> "end of file"
      [] OTHER -> "delimiter"

\* Token::tok_name: the lexeme of a token, as shown in a SyntaxError.
tok_name(t) == t.v

\* The span of the k-th token (0-based): every lexeme is one column wide
\* and is followed by one column of white space.
SpanOf(k) == <<2 * k, 2 * k + 1>>

\* Tokens = Vec<(Token, (usize, usize))>
WithSpans(ts) == [k \in 1..Len(ts) |-> [tok |-> ts[k], span |-> SpanOf(k - 1)]]

\* tok!(index): the token at pos + index, the index clamped at 0.
tok(toks, p, index) ==
    LET le_index == IF p + index < 0 THEN 0 ELSE p + index
    IN  IF le_index < Len(toks) THEN toks[le_index + 1].tok ELSE OutOfBounds

\* span!(index): the span of the token at pos + index, the index clamped at 0.
span(toks, p, index) ==
    LET le_index == IF p + index < 0 THEN 0 ELSE p + index
    IN  IF le_index < Len(toks) THEN toks[le_index + 1].span ELSE <<0, 0>>

(***************************************************************************)
(*                             THE AST ARENA                               *)
(***************************************************************************)

\* ASTData::default(): two empty slot maps.  Nothing is ever removed, so the
\* key a slot map hands out is the index of the next slot.
EmptyAST == [exprs |-> <<>>, stmts |-> <<>>]

\* An insert that hands out the key of the last entry again and writes over
\* that entry.
insert_expr_reuses(a, expr, ar) ==
    IF a.exprs = <<>>
    THEN [ast |-> [a EXCEPT !.exprs = <<[node |-> expr, area |-> ar]>>], key |-> 1]
    ELSE [ast |-> [a EXCEPT !.exprs[Len(a.exprs)] = [node |-> expr, area |-> ar]],
          key |-> Len(a.exprs)]

\* ASTData::insert_expr
insert_expr(a, expr, ar) ==
    [ast |-> [a EXCEPT !.exprs = Append(@, [node |-> expr, area |-> ar])],
     key |-> Len(a.exprs) + 1]

\* ASTData::insert_stmt
insert_stmt(a, stmt, ar) ==
    [ast |-> [a EXCEPT !.stmts = Append(@, [node |-> stmt, area |-> ar])],
     key |-> Len(a.stmts) + 1]

\* ASTData::area for an ExprKey
area(a, k) == a.exprs[k].area

\* ASTData::get_expr
get_expr(a, k) == a.exprs[k].node

\* ASTData::get_stmt
get_stmt(a, k) == a.stmts[k].node

\* Expression
ELiteral(typ, v)  == [tag |-> "Literal", typ |-> typ, v |-> v]
EOp_shared(l, op, r) == [tag |-> "Op", left |-> l, op |-> op, right |-> l]
EOp(l, op, r)     == [tag |-> "Op", left |-> l, op |-> op, right |-> r]
EUnary(op, e)     == [tag |-> "Unary", op |-> op, expr |-> e]
EVar(name)        == [tag |-> "Var", name |-> name]
EArray(elems)     == [tag |-> "Array", elems |-> elems]
EIndex(b, i)      == [tag |-> "Index", base |-> b, index |-> i]
EEmpty            == [tag |-> "Empty"]

\* Statement
SExpr(e)              == [tag |-> "Expr", expr |-> e]
SDeclaration(n, e)    == [tag |-> "Declaration", name |-> n, expr |-> e]
SIf(branches, els)    == [tag |-> "If", branches |-> branches, else_branch |-> els]
SWhile(c, body)       == [tag |-> "While", cond |-> c, code |-> body]
SFor(v, it, body)     == [tag |-> "For", var |-> v, iterator |-> it, code |-> body]

\* Option<Statements>
None == [some |-> FALSE]
Some(x) == [some |-> TRUE, val |-> x]

(***************************************************************************)
(*                          THE PRECEDENCE TABLE                           *)
(***************************************************************************)

\* The table with the rows of + - and of * / % in each other's place.
operators_rows_swapped == <<
    [optype |-> "LeftAssoc",  toks |-> {"Mult", "Div", "Mod"}],
    [optype |-> "Unary",      toks |-> {"Minus"}],
    [optype |-> "LeftAssoc",  toks |-> {"Plus", "Minus"}],
    [optype |-> "RightAssoc", toks |-> {"Pow"}] >>

\* operators!( ... ): the rows, lowest precedence first.
operators == <<
    [optype |-> "LeftAssoc",  toks |-> {"Plus", "Minus"}],
    [optype |-> "Unary",      toks |-> {"Minus"}],
    [optype |-> "LeftAssoc",  toks |-> {"Mult", "Div", "Mod"}],
    [optype |-> "RightAssoc", toks |-> {"Pow"}] >>

\* The value infix_prec / unary_prec return for a token of no row, and the
\* value of next_prec when there is no row left.
NoPrec == 1000000

prec_amount == Len(operators)

prec_type(prec) == operators[prec + 1].optype

infix_prec(t) ==
    LET rows == {r \in 0..(prec_amount - 1) :
                    t.k \in operators[r + 1].toks /\ operators[r + 1].optype # "Unary"}
    IN  IF rows = {} THEN NoPrec ELSE Min(rows)

unary_prec(t) ==
    LET rows == {r \in 0..(prec_amount - 1) :
                    t.k \in operators[r + 1].toks /\ operators[r + 1].optype = "Unary"}
    IN  IF rows = {} THEN NoPrec ELSE Min(rows)

is_unary(t) ==
    \E r \in 1..prec_amount : operators[r].optype = "Unary" /\ t.k \in operators[r].toks

\* The loop that moves next_prec past the Unary rows.
RECURSIVE skip_unary_rows(_)
skip_unary_rows(next_prec) ==
    IF next_prec = NoPrec THEN NoPrec
    ELSE IF prec_type(next_prec) = "Unary"
         THEN IF next_prec + 1 = prec_amount THEN NoPrec
              ELSE skip_unary_rows(next_prec + 1)
         ELSE next_prec

\* next_prec of parse_op: the first non-Unary row above prec.
op_next_prec(prec) ==
    skip_unary_rows(IF prec + 1 < prec_amount THEN prec + 1 ELSE NoPrec)

\* The unary branch with the operand always parsed at the last row.
unary_next_prec_last(prec) == prec_amount - 1

\* The unary branch with the operand always parsed by parse_value.
unary_next_prec_none(prec) == NoPrec

\* next_prec of the unary branch of parse_unit.
unary_next_prec(prec) ==
    skip_unary_rows(IF prec + 1 < prec_amount THEN prec + 1 ELSE NoPrec)


(***************************************************************************)
(*                               THE PARSER                                *)
(***************************************************************************)

\* What a parsing function returns: Ok((value, pos)) with the arena as it
\* left it, or Err(SyntaxError); pos is then the position of the function
\* that raised the error.  The arena is passed by &mut, so the nodes
\* inserted before an error stay in it.
OkR(v, p, a)  == [st |-> "ok", v |-> v, pos |-> p, ast |-> a]
PanicR(p, a)  == [st |-> "panic", pos |-> p, ast |-> a]

\* SyntaxError::Expected
Expected(exp, typ, found, ar) ==
    [kind |-> "Expected", expected |-> exp, typ |-> typ, found |-> found, area |-> ar]

\* expected_err!(exp, tok, area)
expected_err(exp, t, ar, p, a) ==
    IF t = OutOfBounds THEN PanicR(p, a)
    ELSE [st |-> "err", err |-> Expected(exp, tok_typ(t), tok_name(t), ar),
          pos |-> p, ast |-> a]

\* check_tok! moving forwards before it looks at the token.
check_tok_advanced(toks, a, p, kind, exp) ==
    IF tok(toks, p, 0).k # kind
    THEN expected_err(exp, tok(toks, p + 1, 0), span(toks, p + 1, 0), p, a)
    ELSE OkR(tok(toks, p, 0).v, p + 1, a)

\* check_tok!(Token else expected), also in its destructuring form: the
\* value is the payload of the token.
check_tok(toks, a, p, kind, exp) ==
    IF tok(toks, p, 0).k # kind
    THEN expected_err(exp, tok(toks, p, 0), span(toks, p, 0), p, a)
    ELSE OkR(tok(toks, p, 0).v, p + 1, a)

\* skip_tok!(Token)
skip_tok(toks, p, kind) == IF tok(toks, p, 0).k = kind THEN p + 1 ELSE p

RECURSIVE skip_toks(_, _, _)

\* skip_toks! that takes the Eof token for one of the tokens it skips.
skip_toks_past(toks, p, kind) ==
    IF tok(toks, p, 0).k \in {kind, "Eof"} THEN skip_toks(toks, p + 1, kind) ELSE p

\* skip_toks!(Token)
skip_toks(toks, p, kind) ==
    IF tok(toks, p, 0).k = kind THEN skip_toks(toks, p + 1, kind) ELSE p

\* The `?` after a call: an Err (or a panic) leaves the function at once
\* with it, an Ok value goes on into the rest of the function.
Try(r, Rest(_)) == IF r.st # "ok" THEN r ELSE Rest(r)

RECURSIVE parse_unit(_, _, _)
RECURSIVE parse_array_elements(_, _, _, _)
RECURSIVE parse_value(_, _, _)
RECURSIVE parse_value_postfix(_, _, _, _, _)
RECURSIVE parse_expr(_, _, _)
RECURSIVE parse_op(_, _, _, _)
RECURSIVE parse_op_loop(_, _, _, _, _, _)
RECURSIVE parse_statement(_, _, _)
RECURSIVE parse_else_branches(_, _, _, _)
RECURSIVE parse_statements(_, _, _)
RECURSIVE parse_statements_loop(_, _, _, _)

\* The loop of the LSqBracket branch without its check of the token after
\* an element.
parse_array_elements_unchecked(toks, a, p, elements) ==
    IF tok(toks, p, 0).k = "RSqBracket" THEN OkR(elements, p + 1, a)
    ELSE Try(parse_expr(toks, a, p), LAMBDA elem :
            parse_array_elements(toks, elem.ast,
                                 skip_tok(toks, elem.pos, "Comma"),
                                 Append(elements, elem.v)))

\* parse_unit, LSqBracket branch: the while_tok!(!= RSqBracket) loop and the
\* pos += 1 that follows it; the value is the list of element keys.
parse_array_elements(toks, a, p, elements) ==
    IF tok(toks, p, 0).k = "RSqBracket" THEN OkR(elements, p + 1, a)
    ELSE Try(parse_expr(toks, a, p), LAMBDA elem :
            IF tok(toks, elem.pos, 0).k \notin {"RSqBracket", "Comma"}
            THEN expected_err("] or ,", tok(toks, elem.pos, 0),
                              span(toks, elem.pos, 0), elem.pos, elem.ast)
            ELSE parse_array_elements(toks, elem.ast,
                                      skip_tok(toks, elem.pos, "Comma"),
                                      Append(elements, elem.v)))

\* parse_unit, unary branch: the operand of the unary operator.
UnaryOperand(toks, a, p, unary_op) ==
    LET next_prec == unary_next_prec(unary_prec(unary_op))
    IN  IF next_prec # NoPrec THEN parse_op(toks, a, p, next_prec)
        ELSE parse_value(toks, a, p)

\* parse_unit with a node of its own for a parenthesised expression.
parse_unit_grouping(toks, a, p) ==
    LET start == span(toks, p, 0)
        t     == tok(toks, p, 0)
        leaf(expr) == LET ins == insert_expr(a, expr, span(toks, p, 0))
                      IN  OkR(ins.key, p + 1, ins.ast)
    IN  CASE t.k = "Int"    -> leaf(ELiteral("Int", t.v))
          [] t.k = "Float"  -> leaf(ELiteral("Float", t.v))
          [] t.k = "True"   -> leaf(ELiteral("Bool", "true"))
          [] t.k = "False"  -> leaf(ELiteral("Bool", "false"))
          [] t.k = "String" -> leaf(ELiteral("String", t.v))
          [] t.k = "Ident"  -> leaf(EVar(t.v))
          [] t.k = "LParen" ->
                IF tok(toks, p + 1, 0).k = "RParen"
                THEN LET ins == insert_expr(a, EEmpty,
                                    <<start[1], span(toks, p + 1, -1)[2]>>)
                     IN  OkR(ins.key, (p + 1) + 1, ins.ast)
                ELSE Try(parse_expr(toks, a, p + 1), LAMBDA value :
                     Try(check_tok(toks, value.ast, value.pos, "RParen", ")"), LAMBDA c :
                         LET ins == insert_expr(c.ast, EArray(<<value.v>>),
                                        <<start[1], span(toks, c.pos, -1)[2]>>)
                         IN  OkR(ins.key, c.pos, ins.ast)))
          [] t.k = "LSqBracket" ->
                Try(parse_array_elements(toks, a, p + 1, <<>>), LAMBDA elems :
                    LET ins == insert_expr(elems.ast, EArray(elems.v),
                                   <<start[1], span(toks, elems.pos, -1)[2]>>)
                    IN  OkR(ins.key, elems.pos, ins.ast))
          [] t.k \notin {"Int", "Float", "True", "False", "String", "Ident",
                         "LParen", "LSqBracket"} /\ is_unary(t) ->
                Try(UnaryOperand(toks, a, p + 1, t), LAMBDA value :
                    LET ins == insert_expr(value.ast, EUnary(t, value.v),
                                   <<start[1], span(toks, value.pos, -1)[2]>>)
                    IN  OkR(ins.key, value.pos, ins.ast))
          [] OTHER -> expected_err("expression", t, span(toks, p, 0), p, a)

\* parses one unit value
parse_unit(toks, a, p) ==
    LET start == span(toks, p, 0)
        t     == tok(toks, p, 0)
        leaf(expr) == LET ins == insert_expr(a, expr, span(toks, p, 0))
                      IN  OkR(ins.key, p + 1, ins.ast)
    IN  CASE t.k = "Int"    -> leaf(ELiteral("Int", t.v))
          [] t.k = "Float"  -> leaf(ELiteral("Float", t.v))
          [] t.k = "True"   -> leaf(ELiteral("Bool", "true"))
          [] t.k = "False"  -> leaf(ELiteral("Bool", "false"))
          [] t.k = "String" -> leaf(ELiteral("String", t.v))
          [] t.k = "Ident"  -> leaf(EVar(t.v))
          [] t.k = "LParen" ->
                IF tok(toks, p + 1, 0).k = "RParen"
                THEN LET ins == insert_expr(a, EEmpty,
                                    <<start[1], span(toks, p + 1, -1)[2]>>)
                     IN  OkR(ins.key, (p + 1) + 1, ins.ast)
                ELSE Try(parse_expr(toks, a, p + 1), LAMBDA value :
                     Try(check_tok(toks, value.ast, value.pos, "RParen", ")"), LAMBDA c :
                         OkR(value.v, c.pos, c.ast)))
          [] t.k = "LSqBracket" ->
                Try(parse_array_elements(toks, a, p + 1, <<>>), LAMBDA elems :
                    LET ins == insert_expr(elems.ast, EArray(elems.v),
                                   <<start[1], span(toks, elems.pos, -1)[2]>>)
                    IN  OkR(ins.key, elems.pos, ins.ast))
          [] t.k \notin {"Int", "Float", "True", "False", "String", "Ident",
                         "LParen", "LSqBracket"} /\ is_unary(t) ->
                Try(UnaryOperand(toks, a, p + 1, t), LAMBDA value :
                    LET ins == insert_expr(value.ast, EUnary(t, value.v),
                                   <<start[1], span(toks, value.pos, -1)[2]>>)
                    IN  OkR(ins.key, value.pos, ins.ast))
          [] OTHER -> expected_err("expression", t, span(toks, p, 0), p, a)

\* parse_value: the loop that applies the postfix operators.
parse_value_postfix(toks, a, p, start, value) ==
    IF tok(toks, p, 0).k # "LSqBracket" THEN OkR(value, p, a)
    ELSE Try(parse_expr(toks, a, p + 1), LAMBDA index :
         Try(check_tok(toks, index.ast, index.pos, "RSqBracket", "]"), LAMBDA c :
             LET ins == insert_expr(c.ast, EIndex(value, index.v),
                            <<start[1], span(toks, c.pos, -1)[2]>>)
             IN  parse_value_postfix(toks, ins.ast, c.pos, start, ins.key)))

\* parses a full value, aka stuff after like indexing
parse_value(toks, a, p) ==
    Try(parse_unit(toks, a, p), LAMBDA unit :
        parse_value_postfix(toks, unit.ast, unit.pos, area(unit.ast, unit.v), unit.v))

\* shorthand for expression parsings
parse_expr(toks, a, p) == parse_op(toks, a, p, 0)

\* parse_op: the operand of an operator of row prec, on the side where the
\* row does not recurse into itself.
OpOperand(toks, a, p, next_prec) ==
    IF next_prec # NoPrec THEN parse_op(toks, a, p, next_prec)
    ELSE parse_value(toks, a, p)

\* The right operand parsed at the operator's own row, whatever the row.
OpRight_same_row(toks, a, p, prec, next_prec) == parse_op(toks, a, p, prec)

\* The right operand parsed at the next row, whatever the row.
OpRight_next_row(toks, a, p, prec, next_prec) == OpOperand(toks, a, p, next_prec)

\* parse_op: the right operand of an operator of row prec.
OpRight(toks, a, p, prec, next_prec) ==
    IF prec_type(prec) = "LeftAssoc" THEN OpOperand(toks, a, p, next_prec)
    ELSE parse_op(toks, a, p, prec)

\* parse_op: the while infix_prec(tok!(0)) == prec loop.
parse_op_loop(toks, a, p, prec, next_prec, left) ==
    IF infix_prec(tok(toks, p, 0)) # prec THEN OkR(left, p, a)
    ELSE Try(OpRight(toks, a, p + 1, prec, next_prec), LAMBDA right :
            LET left_span  == area(right.ast, left)
                right_span == area(right.ast, right.v)
                ins == insert_expr(right.ast, EOp(left, tok(toks, p, 0), right.v),
                                   <<left_span[1], right_span[2]>>)
            IN  parse_op_loop(toks, ins.ast, right.pos, prec, next_prec, ins.key))

\* parses operators and automatically handles precedence
parse_op(toks, a, p, prec) ==
    Try(OpOperand(toks, a, p, op_next_prec(prec)), LAMBDA left :
        parse_op_loop(toks, left.ast, left.pos, prec, op_next_prec(prec), left.v))

\* cond { statements }: the value is [cond, code].
ParseCondBlock(toks, a, p) ==
    Try(parse_expr(toks, a, p), LAMBDA cond :
    Try(check_tok(toks, cond.ast, cond.pos, "LBracket", "{"), LAMBDA lb :
    Try(parse_statements(toks, lb.ast, lb.pos), LAMBDA body :
    Try(check_tok(toks, body.ast, body.pos, "RBracket", "}"), LAMBDA rb :
        OkR([cond |-> cond.v, code |-> body.v], rb.pos, rb.ast)))))

\* { statements }: the value is the statement list.
ParseBlock(toks, a, p) ==
    Try(check_tok(toks, a, p, "LBracket", "{"), LAMBDA lb :
    Try(parse_statements(toks, lb.ast, lb.pos), LAMBDA body :
    Try(check_tok(toks, body.ast, body.pos, "RBracket", "}"), LAMBDA rb :
        OkR(body.v, rb.pos, rb.ast))))

\* parse_statement, If branch: the while let Token::Else loop; the value is
\* the If statement.
parse_else_branches(toks, a, p, branches) ==
    IF tok(toks, p, 0).k # "Else" THEN OkR(SIf(branches, None), p, a)
    ELSE IF tok(toks, p + 1, 0).k = "If"
         THEN Try(ParseCondBlock(toks, a, (p + 1) + 1), LAMBDA br :
                  parse_else_branches(toks, br.ast, br.pos, Append(branches, br.v)))
         ELSE Try(ParseBlock(toks, a, p + 1), LAMBDA temp :
                  OkR(SIf(branches, Some(temp.v)), temp.pos, temp.ast))

\* parse_statement: the match on the leading token; the value is the
\* Statement, not yet inserted.
StatementBody(toks, a, p) ==
    LET t == tok(toks, p, 0)
    IN  CASE t.k = "Let" ->
                Try(check_tok(toks, a, p + 1, "Ident", "variable name"), LAMBDA var_name :
                Try(check_tok(toks, var_name.ast, var_name.pos, "Assign", "="), LAMBDA eq :
                Try(parse_expr(toks, eq.ast, eq.pos), LAMBDA value :
                    OkR(SDeclaration(var_name.v, value.v), value.pos, value.ast))))
          [] t.k = "If" ->
                Try(ParseCondBlock(toks, a, p + 1), LAMBDA br :
                    parse_else_branches(toks, br.ast, br.pos, <<br.v>>))
          [] t.k = "While" ->
                Try(ParseCondBlock(toks, a, p + 1), LAMBDA br :
                    OkR(SWhile(br.v.cond, br.v.code), br.pos, br.ast))
          [] t.k = "For" ->
                Try(check_tok(toks, a, p + 1, "Ident", "variable name"), LAMBDA var :
                Try(check_tok(toks, var.ast, var.pos, "In", "in"), LAMBDA in :
                Try(ParseCondBlock(toks, in.ast, in.pos), LAMBDA br :
                    OkR(SFor(var.v, br.v.cond, br.v.code), br.pos, br.ast))))
          [] OTHER ->
                Try(parse_expr(toks, a, p), LAMBDA value :
                    OkR(SExpr(value.v), value.pos, value.ast))

\* The terminator with the semicolon never required.
StatementTerminator_optional(toks, a, p) == OkR(TRUE, skip_toks(toks, p, "Eol"), a)

\* parse_statement: the terminator, checked after the statement's body.
StatementTerminator(toks, a, p) ==
    IF tok(toks, p, -1).k # "RBracket"
    THEN Try(check_tok(toks, a, p, "Eol", ";"), LAMBDA eol :
             OkR(TRUE, skip_toks(toks, eol.pos, "Eol"), eol.ast))
    ELSE OkR(TRUE, skip_toks(toks, p, "Eol"), a)

\* parses statements
parse_statement(toks, a, p) ==
    Try(StatementBody(toks, a, p), LAMBDA stmt :
    Try(StatementTerminator(toks, stmt.ast, stmt.pos), LAMBDA term :
        LET ins == insert_stmt(term.ast, stmt.v,
                       <<span(toks, p, 0)[1], span(toks, term.pos, -1)[2]>>)
        IN  OkR(ins.key, term.pos, ins.ast)))

\* parse_statements: the while !matches!(tok!(0), Eof | RBracket) loop.
parse_statements_loop(toks, a, p, stmts) ==
    IF tok(toks, p, 0).k \in {"Eof", "RBracket"} THEN OkR(stmts, p, a)
    ELSE Try(parse_statement(toks, a, p), LAMBDA stmt :
             parse_statements_loop(toks, stmt.ast, stmt.pos, Append(stmts, stmt.v)))

\* parses statements lol
parse_statements(toks, a, p) == parse_statements_loop(toks, a, p, <<>>)

(***************************************************************************)
(*                         THE INPUTS OF THE PARSER                        *)
(***************************************************************************)

\* The longest operator chain (number of infix operators) drawn in Init.
MaxOps == 3
\* The operands of a chain that may carry a unary minus: the first MaxNeg.
MaxNeg == 2
\* The number of statements of a drawn statement list.
MaxStmts == 2
\* The longest run of semicolons after a drawn statement.
MaxEols == 2

InfixOps == {TPlus, TMinus, TMult, TDiv, TMod, TPow}

OperandNames == <<"a", "b", "c", "d", "e", "f">>
Operand(i) == TIdent(OperandNames[i])

\* [-] a op1 [-] b op2 c ...
RECURSIVE ChainFrom(_, _, _)
ChainFrom(i, ops, negs) ==
    (IF i \in negs THEN <<TMinus>> ELSE <<>>) \o <<Operand(i)>>
    \o (IF i <= Len(ops) THEN <<ops[i]>> \o ChainFrom(i + 1, ops, negs) ELSE <<>>)

OpChains ==
    {ChainFrom(1, ops, negs) \o <<TEol, TEof>> :
        ops \in UNION {[1..n -> InfixOps] : n \in 1..MaxOps},
        negs \in SUBSET (1..MaxNeg)}

\* Statements that end with an expression.
PlainBodies == {
    <<TLet, TIdent("x"), TAssign, TInt("1")>>,
    <<TIdent("a")>> }

\* Statements that end with a block.
BlockBodies == {
    <<TIf, TIdent("a"), TLBracket, TRBracket>>,
    <<TIf, TIdent("a"), TLBracket, TIdent("b"), TEol, TRBracket, TElse, TLBracket, TRBracket>>,
    <<TFor, TIdent("i"), TIn, TIdent("a"), TLBracket, TRBracket>> }

\* A block whose inner statement lacks its semicolon.
BrokenBodies == {
    <<TWhile, TTrue, TLBracket, TLet, TIdent("x"), TAssign, TInt("1"), TRBracket>> }

StmtBodies == PlainBodies \cup BlockBodies \cup BrokenBodies

RECURSIVE Eols(_)
Eols(n) == IF n = 0 THEN <<>> ELSE <<TEol>> \o Eols(n - 1)

TerminatedStmts == {b \o Eols(n) : b \in StmtBodies, n \in 0..MaxEols}

RECURSIVE StmtSeqs(_)
StmtSeqs(n) ==
    IF n = 0 THEN {<<>>}
    ELSE {s \o t : s \in TerminatedStmts, t \in StmtSeqs(n - 1)}

StmtLists == {s \o <<TEof>> : s \in UNION {StmtSeqs(n) : n \in 1..MaxStmts}}

\* Source texts that are well formed, and the tokens put in the place of
\* one of theirs to make a mismatch at every position.
WellFormed == {
    <<TLet, TIdent("x"), TAssign, TIdent("a"), TPlus, TInt("1"), TEol, TIdent("x"), TEol, TEof>>,
    <<TIf, TIdent("a"), TLBracket, TIdent("b"), TEol, TRBracket, TElse, TIf, TIdent("c"),
      TLBracket, TRBracket, TElse, TLBracket, TRBracket, TIdent("d"), TEol, TEof>>,
    <<TFor, TIdent("i"), TIn, TLSq, TInt("1"), TComma, TInt("2"), TRSq, TLBracket,
      TIdent("i"), TEol, TRBracket, TEof>>,
    <<TWhile, TLParen, TIdent("a"), TMinus, TInt("1"), TRParen, TLBracket, TRBracket, TEof>>,
    <<TIdent("a"), TLSq, TMinus, TInt("1"), TRSq, TPow, TLParen, TRParen, TEol, TEof>>,
    <<TMinus, TInt("2"), TPow, TInt("2"), TEol, TEof>>,
    <<TInt("1"), TPlus, TInt("2"), TMult, TInt("3"), TEol, TEof>>,
    <<TMinus, TInt("3"), TPlus, TInt("4"), TEol, TEof>>,
    <<TMinus, TInt("3"), TMult, TInt("4"), TEol, TEof>>,
    <<TLSq, TRSq, TEol, TEof>>,
    <<TLSq, TInt("1"), TComma, TInt("2"), TComma, TInt("3"), TRSq, TEol, TEof>>,
    <<TLSq, TInt("1"), TComma, TInt("2"), TComma, TInt("3"), TComma, TRSq, TEol, TEof>>,
    <<TLParen, TIdent("a"), TPlus, TIdent("b"), TRParen, TMult, TIdent("c"), TEol, TEof>>,
    <<TIdent("c"), TMult, TLParen, TIdent("a"), TPlus, TIdent("b"), TRParen, TEol, TEof>>,
    <<TMinus, TLParen, TLParen, TIdent("a"), TRParen, TRParen, TLSq, TLParen, TRParen, TRSq,
      TEol, TEof>>,
    <<TLParen, TRParen, TEol, TEof>> }

\* Source texts with an element or a parenthesis that is not closed.
Unclosed == {
    <<TLSq, TInt("1"), TInt("2"), TRSq, TEol, TEof>>,
    <<TLSq, TInt("1"), TComma, TComma, TRSq, TEol, TEof>>,
    <<TLSq, TInt("1"), TComma, TInt("2"), TEof>>,
    <<TLParen, TIdent("a"), TEol, TEof>>,
    <<TLParen, TIdent("a"), TPlus, TIdent("b"), TMult, TIdent("c"), TEol, TEof>> }

Replacements == {TIdent("z"), TEol, TRBracket, TLBracket, TRParen, TAssign, TElse, TRSq, TEof}

Replaced(ts, k, r) == [i \in 1..Len(ts) |-> IF i = k THEN r ELSE ts[i]]

Mismatched == {Replaced(ts, k, r) : ts \in WellFormed, k \in 1..8, r \in Replacements}

RECURSIVE EndAtEof(_, _)
EndAtEof(ts, i) ==
    IF i > Len(ts) THEN ts \o <<TEof>>
    ELSE IF ts[i] = TEof THEN SubSeq(ts, 1, i) ELSE EndAtEof(ts, i + 1)

\* Every drawn token list ends with its one Eof token, as the lexer's do.
TokenLists ==
    {EndAtEof(ts, 1) : ts \in OpChains} \cup {EndAtEof(ts, 1) : ts \in StmtLists}
    \cup {EndAtEof(ts, 1) : ts \in WellFormed} \cup {EndAtEof(ts, 1) : ts \in Mismatched}
    \cup {EndAtEof(ts, 1) : ts \in Unclosed}

(***************************************************************************)
(*                     parse(): THE STATE MACHINE                          *)
(***************************************************************************)

ExecIdle ==
    /\ code = <<>> /\ ctx = 0 /\ ip = 0 /\ stack = <<>> /\ memory = <<>>
    /\ contexts = <<>> /\ output = <<>> /\ estate = "idle" /\ eerr = NoError

RunIdle ==
    /\ instructions = <<>> /\ full = <<>> /\ cursor = 0 /\ finished = FALSE
    /\ rstate = "idle" /\ startOf = <<>> /\ ran = <<>>

\* parse(): let mut pos = 0, with the arena the caller made.
InitParse ==
    /\ tokens \in {WithSpans(ts) : ts \in TokenLists}
    /\ pos = 0
    /\ ast = EmptyAST
    /\ statements = <<>>
    /\ pstate = "parsing"
    /\ perr = NoError
    /\ ExecIdle
    /\ RunIdle

\* One pass of the loop of the parse_statements that parse() calls.
ParseStatementsStep ==
    /\ pstate = "parsing"
    /\ tok(tokens, pos, 0).k \notin {"Eof", "RBracket"}
    /\ \E stmt \in {parse_statement(tokens, ast, pos)} :
           /\ ast' = stmt.ast
           /\ pos' = stmt.pos
           /\ IF stmt.st = "ok"
              THEN /\ statements' = Append(statements, stmt.v)
                   /\ UNCHANGED <<pstate, perr>>
              ELSE /\ pstate' = stmt.st
                   /\ perr' = IF stmt.st = "err" THEN stmt.err ELSE NoError
                   /\ UNCHANGED statements
    /\ UNCHANGED <<tokens, execVars, runVars>>

\* The return of parse() with a closing brace taken as the end of the loop.
ParseReturn_consumes ==
    /\ pstate = "parsing"
    /\ tok(tokens, pos, 0).k \in {"Eof", "RBracket"}
    /\ pstate' = "ok"
    /\ pos' = IF tok(tokens, pos, 0).k = "RBracket" THEN pos + 1 ELSE pos
    /\ UNCHANGED <<tokens, ast, statements, perr, execVars, runVars>>

\* The loop of parse_statements ends and parse() returns Ok(stmts).
ParseReturn ==
    /\ pstate = "parsing"
    /\ tok(tokens, pos, 0).k \in {"Eof", "RBracket"}
    /\ pstate' = "ok"
    /\ UNCHANGED <<tokens, pos, ast, statements, perr, execVars, runVars>>

NextParse == ParseStatementsStep \/ ParseReturn

ParseSpec == InitParse /\ [][NextParse]_vars

(***************************************************************************)
(*                          VALUES AND VALUE-OPS                           *)
(***************************************************************************)

\* Value: the variant and its payload; the payload of a Bool is 1 for true
\* and 0 for false, Empty has none.
IntV(n)  == [t |-> "Int", v |-> n]
BoolV(b) == [t |-> "Bool", v |-> IF b THEN 1 ELSE 0]
EmptyV   == [t |-> "Empty", v |-> 0]
IsTrue(x) == x.v = 1

\* A value of the variant tag with a payload that is not known: the bytes
\* of storage that was freed and used again, read as a Value.
Unspecified(tag) == [t |-> tag, any |-> TRUE]
IsUnspecified(x) == "any" \in DOMAIN x

\* Value::TypeIndicator, Value::Pattern(Pattern::Any), Value::Array,
\* Value::Dict and Value::Macro.  The elements of an Array and the values of
\* a Dict are StoredValues; a Dict is the set of its [key, val] entries; an
\* argument of a Macro is [name, typ, def] with typ and def an Option.
TypeIndicatorV(typ) == [t |-> "TypeIndicator", typ |-> typ]
PatternAnyV == [t |-> "Pattern", pat |-> "Any"]
ArrayV(elems) == [t |-> "Array", elems |-> elems]
DictV(map) == [t |-> "Dict", map |-> map]
MacroV(func_id, args, ret_type) ==
    [t |-> "Macro", func_id |-> func_id, args |-> args, ret_type |-> ret_type]

\* StoredValue { value, def_area }
Stored(v, ar) == [value |-> v, def_area |-> ar]

\* Value::into_stored
into_stored(v, ar) == Stored(v, ar)

\* What a value-op returns: Ok(StoredValue) or Err(RuntimeError).
OkV(sv)  == [st |-> "ok", v |-> sv]
ErrV(e)  == [st |-> "err", err |-> e]

\* RuntimeError::TypeMismatch
TypeMismatch(values, ar) == [kind |-> "TypeMismatch", values |-> values, area |-> ar]

\* RuntimeError::UndefinedType, RuntimeError::CannotCall
UndefinedType(name, ar) == [kind |-> "UndefinedType", name |-> name, area |-> ar]
CannotCall(base, ar) == [kind |-> "CannotCall", base |-> base, area |-> ar]

\* RuntimeError::Unimplemented, the error the specification names for the
\* reserved opcodes.
Unimplemented(instruction, ar) ==
    [kind |-> "Unimplemented", instruction |-> instruction, area |-> ar]

BinaryOps == {"Plus", "Minus", "Mult", "Div", "Mod", "Pow",
              "Eq", "NotEq", "Greater", "GreaterEq", "Lesser", "LesserEq"}

\* Integer division and remainder as the machine computes them: the
\* quotient truncated towards zero, the remainder with the dividend's sign.
Abs(n) == IF n < 0 THEN -n ELSE n
TruncDiv(a, b) ==
    IF (a < 0) = (b < 0) THEN Abs(a) \div Abs(b) ELSE -(Abs(a) \div Abs(b))
TruncRem(a, b) == a - b * TruncDiv(a, b)

RECURSIVE IntPow(_, _)
IntPow(a, b) == IF b <= 0 THEN 1 ELSE a * IntPow(a, b - 1)

\* value_ops::plus ... value_ops::lesser_eq: a is the left operand.
value_op(op, a, b, ar) ==
    LET x == a.value
        y == b.value
        ints == x.t = "Int" /\ y.t = "Int"
        mismatch == ErrV(TypeMismatch(<<a, b>>, ar))
        int(n) == OkV(Stored(IntV(n), ar))
        bool(c) == OkV(Stored(BoolV(c), ar))
        same == x = y
    IN  CASE op = "Eq"    -> bool(same)
          [] op = "NotEq" -> bool(~same)
          [] op \notin {"Eq", "NotEq"} /\ ~ints -> mismatch
          [] op = "Plus"  /\ ints -> int(x.v + y.v)
          [] op = "Minus" /\ ints -> int(x.v - y.v)
          [] op = "Mult"  /\ ints -> int(x.v * y.v)
          [] op = "Div"   /\ ints -> IF y.v = 0 THEN mismatch ELSE int(TruncDiv(x.v, y.v))
          [] op = "Mod"   /\ ints -> IF y.v = 0 THEN mismatch ELSE int(TruncRem(x.v, y.v))
          [] op = "Pow"   /\ ints -> IF y.v < 0 THEN mismatch ELSE int(IntPow(x.v, y.v))
          [] op = "Greater"   /\ ints -> bool(x.v > y.v)
          [] op = "GreaterEq" /\ ints -> bool(x.v >= y.v)
          [] op = "Lesser"    /\ ints -> bool(x.v < y.v)
          [] op = "LesserEq"  /\ ints -> bool(x.v <= y.v)

\* The value-ops on operands of which one has a payload that is not known:
\* every result the payloads allow.
value_op_unspecified(op, a, b, ar) ==
    LET x == a.value
        y == b.value
        ints == x.t = "Int" /\ y.t = "Int"
        mismatch == ErrV(TypeMismatch(<<a, b>>, ar))
        int == OkV(Stored(Unspecified("Int"), ar))
        bools == {OkV(Stored(BoolV(c), ar)) : c \in BOOLEAN}
    IN  CASE op \in {"Eq", "NotEq"} /\ x.t # y.t -> {OkV(Stored(BoolV(op = "NotEq"), ar))}
          [] op \in {"Eq", "NotEq"} /\ x.t = y.t -> bools
          [] op \notin {"Eq", "NotEq"} /\ ~ints -> {mismatch}
          [] op \in {"Plus", "Minus", "Mult"} /\ ints -> {int}
          [] op \in {"Div", "Mod"} /\ ints ->
                 IF IsUnspecified(y) THEN {int, mismatch}
                 ELSE IF y.v = 0 THEN {mismatch} ELSE {int}
          [] op = "Pow" /\ ints ->
                 IF IsUnspecified(y) THEN {int, mismatch}
                 ELSE IF y.v < 0 THEN {mismatch} ELSE {int}
          [] op \in {"Greater", "GreaterEq", "Lesser", "LesserEq"} /\ ints -> bools

\* The results of a value-op: one, when the payloads of both operands are
\* known.
value_op_results(op, a, b, ar) ==
    IF IsUnspecified(a.value) \/ IsUnspecified(b.value)
    THEN value_op_unspecified(op, a, b, ar)
    ELSE {value_op(op, a, b, ar)}

\* value_ops::unary_negate
unary_negate(a, ar) ==
    IF a.value.t = "Int"
    THEN OkV(Stored(IF IsUnspecified(a.value) THEN a.value ELSE IntV(-a.value.v), ar))
    ELSE ErrV(TypeMismatch(<<a>>, ar))

\* value_ops::unary_not
unary_not(a, ar) ==
    IF a.value.t = "Bool" THEN OkV(Stored(BoolV(~IsTrue(a.value)), ar))
    ELSE ErrV(TypeMismatch(<<a>>, ar))

\* value_ops::to_bool: the value is a BOOLEAN, not a StoredValue.
to_bool(a) ==
    IF a.value.t = "Bool" THEN OkV(IsTrue(a.value))
    ELSE ErrV(TypeMismatch(<<a>>, a.def_area))

\* Value::to_str
to_str(v) ==
    CASE IsUnspecified(v) -> "<" \o v.t \o " ..>"
      [] v.t = "Int"   -> ToString(v.v)
      [] v.t = "Bool"  -> IF IsTrue(v) THEN "true" ELSE "false"
      [] v.t = "Empty" -> "()"
      [] OTHER         -> "<" \o v.t \o ">"

\* The Debug form of a Value, as the stack dump writes it.
debug_str(v) ==
    CASE IsUnspecified(v) -> v.t \o "(..)"
      [] v.t = "Int"   -> "Int(" \o ToString(v.v) \o ")"
      [] v.t = "Bool"  -> "Bool(" \o (IF IsTrue(v) THEN "true" ELSE "false") \o ")"
      [] v.t = "Empty" -> "Empty"
      [] OTHER         -> v.t \o "(..)"

\* Globals::init: the type registry, name -> ValueType.
Types ==
    [int |-> "Int", float |-> "Float", string |-> "String", bool |-> "Bool",
     empty |-> "Empty", array |-> "Array", dictionary |-> "Dict", maybe |-> "Maybe",
     type_indicator |-> "TypeIndicator", pattern |-> "Pattern", group |-> "Group",
     trigger_function |-> "TriggerFunc", macro |-> "Macro"]

(***************************************************************************)
(*                     THE HEAP AND THE RAW POINTERS                       *)
(***************************************************************************)

\* Vec's smallest capacity after a first growth, for elements of this size.
MinNonZeroCap == 4

\* SlotMap::default(): the slot vector holds the sentinel slot only and has
\* room for nothing else.  slots are the slots after the sentinel, and the
\* key of a value is the index of its slot (nothing is ever removed); cap
\* counts the slots the backing allocation has room for, the sentinel
\* included; buf names the backing allocation.
EmptyMemory == [slots |-> <<>>, cap |-> 1, buf |-> 0]

\* globals.memory.insert(v): the slot vector grows when it is full, and the
\* allocator then either extends the allocation where it is or moves it.
\* The set of the possible results [mem, key].
Insert(mem, sv) ==
    LET len   == Len(mem.slots) + 1
        key   == Len(mem.slots) + 1
        added == Append(mem.slots, sv)
    IN  IF len < mem.cap
        THEN {[mem |-> [mem EXCEPT !.slots = added], key |-> key]}
        ELSE LET cap == Max({2 * mem.cap, len + 1, MinNonZeroCap})
             IN  {[mem |-> [slots |-> added, cap |-> cap, buf |-> mem.buf], key |-> key],
                  [mem |-> [slots |-> added, cap |-> cap, buf |-> mem.buf + 1], key |-> key]}

\* &mut globals.memory[key] as *mut StoredValue: an address in the backing
\* allocation of the moment.
PtrTo(mem, key) == [buf |-> mem.buf, idx |-> key]

Dangling(mem, ptr) == ptr.buf # mem.buf

\* ValueType: the variants of Value.
ValueTypes == {Types[n] : n \in DOMAIN Types}

\* What a read of freed storage may find when the storage has been reused:
\* the bytes that are there, read as a StoredValue.  They may be a value of
\* any variant, with any payload and any area: Bool and Empty have the
\* payloads listed, the payload of every other variant (the integer of an
\* Int, the bits of a Float, the elements of an Array ...) is left open.
NoArea == [instruction |-> -1]
Garbage ==
    {Stored(g, NoArea) :
        g \in {Unspecified(tag) : tag \in ValueTypes \ {"Bool", "Empty"}}
               \cup {BoolV(TRUE), BoolV(FALSE), EmptyV}}

Crash == [st |-> "crash"]

\* *ptr: a pointer into the backing allocation of the moment reads its slot.
\* A pointer into an allocation that has been moved and freed is dangling:
\* the read finds the old bytes, or whatever reused them (another entry of
\* the heap, or bytes that are no entry), or faults.
Deref(mem, ptr) ==
    IF ~Dangling(mem, ptr) THEN {OkV(mem.slots[ptr.idx])}
    ELSE {OkV(mem.slots[k]) : k \in DOMAIN mem.slots}
         \cup {OkV(g) : g \in Garbage} \cup {Crash}

(***************************************************************************)
(*                      execute(): THE STATE MACHINE                       *)
(***************************************************************************)

\* Instruction
I(op, arg) == [op |-> op, arg |-> arg]
I0(op) == [op |-> op, arg |-> 0]

\* Opcodes whose arm is todo!().
ReservedOps == {"ToIter", "IterNext", "Return", "Continue", "Break", "MakeMacroPattern",
                "Index", "TriggerFuncCall", "SaveContexts", "ReviseContexts", "PushNone",
                "WrapMaybe", "PushContextGroup", "PopContextGroup", "PushTriggerFnValue",
                "TypeDef", "Impl", "Instance"}

\* Opcodes whose arm is empty.
NoOps == {"MergeContexts", "EnterScope", "ExitScope"}

\* Option<ValueKey>::None in a variable's frame.
NoKey == 0

\* Context::get_var: the key in the top frame of the variable, NoKey when
\* the variable has no value yet.
get_var(context, id) == context.vars[id][Len(context.vars[id])]

\* *context.vars[id].last_mut().unwrap() = Some(key)
set_var(context, id, key) ==
    [context EXCEPT !.vars[id] = [@ EXCEPT ![Len(@)] = key]]

\* code.get_bytecode_area(func, i): the area of the i-th instruction.
get_bytecode_area(i) == [instruction |-> i]

\* The instruction at i.
Instr == code.instructions[ip + 1]

\* The body of the while loop runs on an instruction of one of these opcodes.
Fetch(ops) ==
    /\ estate = "running"
    /\ ip < Len(code.instructions)
    /\ Instr.op \in ops

\* What an instruction leaves alone in every case.
Frame == UNCHANGED <<code, ctx, parseVars, runVars>>

\* The instruction is done: i += 1.
Continue(stk, mem, cs, out) ==
    /\ stack' = stk /\ memory' = mem /\ contexts' = cs /\ output' = out
    /\ ip' = ip + 1
    /\ UNCHANGED <<estate, eerr>>

\* An error that is recorded while the loop goes on with the next
\* instruction.
Halt_resumes(st, e, stk) ==
    IF st = "err"
    THEN /\ eerr' = e /\ stack' = stk /\ ip' = ip + 1
         /\ UNCHANGED <<memory, contexts, output, estate>>
    ELSE /\ estate' = st /\ eerr' = e /\ stack' = stk
         /\ UNCHANGED <<memory, contexts, output, ip>>

\* execute() ends here: st is "err" (return Err(e)), "panic" (an unwrap of
\* None, a todo!()) or "crash" (a fault on a dangling pointer).
Halt(st, e, stk) ==
    /\ estate' = st /\ eerr' = e /\ stack' = stk
    /\ UNCHANGED <<memory, contexts, output, ip>>

Top(stk) == stk[Len(stk)]
Pop1(stk) == SubSeq(stk, 1, Len(stk) - 1)
Pop2(stk) == SubSeq(stk, 1, Len(stk) - 2)

\* push!(v), and the insert-then-push of op_helper! and LoadConst.
Push(stk, sv) ==
    \E ins \in Insert(memory, sv) :
        Continue(Append(stk, PtrTo(ins.mem, ins.key)), ins.mem, contexts, output)

\* op_helper!: Plus ... LesserEq
ExecBinaryOp ==
    /\ Fetch(BinaryOps)
    /\ Frame
    /\ IF Len(stack) < 2 THEN Halt("panic", NoError, <<>>)
       ELSE LET b == Top(stack)
                a == Top(Pop1(stack))
            IN  \E da \in Deref(memory, a), db \in Deref(memory, b) :
                    IF da.st = "crash" \/ db.st = "crash"
                    THEN Halt("crash", NoError, Pop2(stack))
                    ELSE \E r \in value_op_results(Instr.op, da.v, db.v,
                                                   get_bytecode_area(ip)) :
                             IF r.st = "err" THEN Halt("err", r.err, Pop2(stack))
                             ELSE Push(Pop2(stack), r.v)

\* Instruction::LoadConst(id)
ExecLoadConst ==
    /\ Fetch({"LoadConst"})
    /\ Frame
    /\ Push(stack, into_stored(code.constants[Instr.arg], get_bytecode_area(ip)))

\* Instruction::Negate, Instruction::Not
ExecUnaryOp ==
    /\ Fetch({"Negate", "Not"})
    /\ Frame
    /\ IF Len(stack) < 1 THEN Halt("panic", NoError, <<>>)
       ELSE \E da \in Deref(memory, Top(stack)) :
                IF da.st = "crash" THEN Halt("crash", NoError, Pop1(stack))
                ELSE LET r == IF Instr.op = "Negate"
                              THEN unary_negate(da.v, get_bytecode_area(ip))
                              ELSE unary_not(da.v, get_bytecode_area(ip))
                     IN  IF r.st = "err" THEN Halt("err", r.err, Pop1(stack))
                         ELSE Push(Pop1(stack), r.v)

\* LoadVar pushing a copy of the variable's value under a new key.
ExecLoadVar_copies ==
    /\ Fetch({"LoadVar"})
    /\ Frame
    /\ LET key == get_var(contexts[ctx], Instr.arg)
       IN  IF key = NoKey THEN Halt("panic", NoError, stack)
           ELSE Push(stack, memory.slots[key])

\* Instruction::LoadVar(id)
ExecLoadVar ==
    /\ Fetch({"LoadVar"})
    /\ Frame
    /\ LET key == get_var(contexts[ctx], Instr.arg)
       IN  IF key = NoKey THEN Halt("panic", NoError, stack)
           ELSE Continue(Append(stack, PtrTo(memory, key)), memory, contexts, output)

\* SetVar binding the variable to the entry it pops, without a copy.
ExecSetVar_shares ==
    /\ Fetch({"SetVar"})
    /\ Frame
    /\ IF Len(stack) < 1 THEN Halt("panic", NoError, <<>>)
       ELSE Continue(Pop1(stack), memory,
                     [contexts EXCEPT ![ctx] = set_var(@, Instr.arg, Top(stack).idx)],
                     output)

\* Instruction::SetVar(id)
ExecSetVar ==
    /\ Fetch({"SetVar"})
    /\ Frame
    /\ IF Len(stack) < 1 THEN Halt("panic", NoError, <<>>)
       ELSE \E top \in Deref(memory, Top(stack)) :
                IF top.st = "crash" THEN Halt("crash", NoError, Pop1(stack))
                ELSE \E ins \in Insert(memory, top.v) :
                        Continue(Pop1(stack), ins.mem,
                                 [contexts EXCEPT ![ctx] = set_var(@, Instr.arg, ins.key)],
                                 output)

\* A line that println! wrote.
PrintLine(text) == [by |-> "Print", text |-> text]
StackLine(text) == [by |-> "stack", text |-> text]

\* Print writing the top of the stack without popping it.
ExecPrint_peeks ==
    /\ Fetch({"Print"})
    /\ Frame
    /\ IF Len(stack) < 1 THEN Halt("panic", NoError, <<>>)
       ELSE \E top \in Deref(memory, Top(stack)) :
                IF top.st = "crash" THEN Halt("crash", NoError, Pop1(stack))
                ELSE Continue(stack, memory, contexts,
                              Append(output, PrintLine(to_str(top.v.value))))

\* Instruction::Print
ExecPrint ==
    /\ Fetch({"Print"})
    /\ Frame
    /\ IF Len(stack) < 1 THEN Halt("panic", NoError, <<>>)
       ELSE \E top \in Deref(memory, Top(stack)) :
                IF top.st = "crash" THEN Halt("crash", NoError, Pop1(stack))
                ELSE Continue(Pop1(stack), memory, contexts,
                              Append(output, PrintLine(to_str(top.v.value))))

\* Instruction::PushEmpty
ExecPushEmpty ==
    /\ Fetch({"PushEmpty"})
    /\ Frame
    /\ Push(stack, into_stored(EmptyV, get_bytecode_area(ip)))

\* PopTop with the unwrap of the other popping arms.
ExecPopTop_unwraps ==
    /\ Fetch({"PopTop"})
    /\ Frame
    /\ IF Len(stack) < 1 THEN Halt("panic", NoError, <<>>)
       ELSE Continue(Pop1(stack), memory, contexts, output)

\* Instruction::PopTop
ExecPopTop ==
    /\ Fetch({"PopTop"})
    /\ Frame
    /\ Continue(IF Len(stack) = 0 THEN stack ELSE Pop1(stack), memory, contexts, output)

\* Jump falling through to the i += 1 at the tail of the loop.
ExecJump_increments ==
    /\ Fetch({"Jump"})
    /\ Frame
    /\ ip' = code.destinations[Instr.arg] + 1
    /\ UNCHANGED <<stack, memory, contexts, output, estate, eerr>>

\* Instruction::Jump(id)
ExecJump ==
    /\ Fetch({"Jump"})
    /\ Frame
    /\ ip' = code.destinations[Instr.arg]
    /\ UNCHANGED <<stack, memory, contexts, output, estate, eerr>>

\* JumpIfFalse keeping its entry on the stack when it takes the branch.
ExecJumpIfFalse_keeps ==
    /\ Fetch({"JumpIfFalse"})
    /\ Frame
    /\ IF Len(stack) < 1 THEN Halt("panic", NoError, <<>>)
       ELSE \E top \in Deref(memory, Top(stack)) :
                IF top.st = "crash" THEN Halt("crash", NoError, Pop1(stack))
                ELSE LET c == to_bool(top.v)
                     IN  IF c.st = "err" THEN Halt("err", c.err, Pop1(stack))
                         ELSE /\ stack' = IF ~c.v THEN stack ELSE Pop1(stack)
                              /\ ip' = IF ~c.v THEN code.destinations[Instr.arg] ELSE ip + 1
                              /\ UNCHANGED <<memory, contexts, output, estate, eerr>>

\* Instruction::JumpIfFalse(id)
ExecJumpIfFalse ==
    /\ Fetch({"JumpIfFalse"})
    /\ Frame
    /\ IF Len(stack) < 1 THEN Halt("panic", NoError, <<>>)
       ELSE \E top \in Deref(memory, Top(stack)) :
                IF top.st = "crash" THEN Halt("crash", NoError, Pop1(stack))
                ELSE LET c == to_bool(top.v)
                     IN  IF c.st = "err" THEN Halt("err", c.err, Pop1(stack))
                         ELSE /\ stack' = Pop1(stack)
                              /\ ip' = IF ~c.v THEN code.destinations[Instr.arg] ELSE ip + 1
                              /\ UNCHANGED <<memory, contexts, output, estate, eerr>>

\* n times pop_clone!(): the set of the possible results [st, vals, stk],
\* vals in the order of the pops.  st is "panic" when the stack runs out
\* (unwrap of None) and "crash" when a read through a dangling pointer
\* faults.
RECURSIVE PopClones(_, _, _)
PopClones(mem, stk, n) ==
    IF n = 0 THEN {[st |-> "ok", vals |-> <<>>, stk |-> stk]}
    ELSE IF stk = <<>> THEN {[st |-> "panic", vals |-> <<>>, stk |-> <<>>]}
    ELSE UNION {IF d.st = "crash"
                THEN {[st |-> "crash", vals |-> <<>>, stk |-> Pop1(stk)]}
                ELSE {[r EXCEPT !.vals = <<d.v>> \o @] :
                         r \in PopClones(mem, Pop1(stk), n - 1)} :
                d \in Deref(mem, Top(stk))}

\* Vec::reverse
Reverse(seq) == [k \in 1..Len(seq) |-> seq[Len(seq) + 1 - k]]

\* Instruction::LoadType(id)
ExecLoadType ==
    /\ Fetch({"LoadType"})
    /\ Frame
    /\ IF code.names[Instr.arg] \in DOMAIN Types
       THEN Push(stack, into_stored(TypeIndicatorV(Types[code.names[Instr.arg]]),
                                    get_bytecode_area(ip)))
       ELSE Halt("err", UndefinedType(code.names[Instr.arg], get_bytecode_area(ip)), stack)

\* BuildArray without the elems.reverse() before the push.
ExecBuildArray_unreversed ==
    /\ Fetch({"BuildArray"})
    /\ Frame
    /\ \E r \in PopClones(memory, stack, Instr.arg) :
          IF r.st # "ok" THEN Halt(r.st, NoError, r.stk)
          ELSE Push(r.stk, into_stored(ArrayV(r.vals), get_bytecode_area(ip)))

\* Instruction::BuildArray(len)
ExecBuildArray ==
    /\ Fetch({"BuildArray"})
    /\ Frame
    /\ \E r \in PopClones(memory, stack, Instr.arg) :
          IF r.st # "ok" THEN Halt(r.st, NoError, r.stk)
          ELSE Push(r.stk, into_stored(ArrayV(Reverse(r.vals)), get_bytecode_area(ip)))

\* keys.zip(values).collect() into a map: the k-th key with the k-th value,
\* a later entry replacing an earlier one of the same key.
Zipped(keys, vals) ==
    {[key |-> keys[k], val |-> vals[k]] :
        k \in {i \in 1..Len(keys) : \A j \in (i + 1)..Len(keys) : keys[j] # keys[i]}}

\* Instruction::BuildDict(id)
ExecBuildDict ==
    /\ Fetch({"BuildDict"})
    /\ Frame
    /\ \E r \in PopClones(memory, stack, Len(code.name_sets[Instr.arg])) :
          IF r.st # "ok" THEN Halt(r.st, NoError, r.stk)
          ELSE Push(r.stk, into_stored(DictV(Zipped(code.name_sets[Instr.arg], r.vals)),
                                       get_bytecode_area(ip)))

\* MakeMacro: the pops that the loop over arg_info makes for one descriptor,
\* and for all of them.
ArgPops(desc) == (IF desc.def THEN 1 ELSE 0) + (IF desc.typ THEN 1 ELSE 0)

RECURSIVE InfoPops(_)
InfoPops(arg_info) ==
    IF arg_info = <<>> THEN 0 ELSE ArgPops(Head(arg_info)) + InfoPops(Tail(arg_info))

\* MakeMacro: the for (name, typ, def) in arg_info loop on the values it
\* pops, vals in the order of the pops; the list args before its reversal.
RECURSIVE CollectArgs(_, _)
CollectArgs(arg_info, vals) ==
    IF arg_info = <<>> THEN <<>>
    ELSE <<[name |-> Head(arg_info).name,
            typ  |-> IF Head(arg_info).typ
                     THEN Some(vals[(IF Head(arg_info).def THEN 1 ELSE 0) + 1])
                     ELSE None,
            def  |-> IF Head(arg_info).def THEN Some(vals[1]) ELSE None]>>
         \o CollectArgs(Tail(arg_info),
                        SubSeq(vals, ArgPops(Head(arg_info)) + 1, Len(vals)))

\* MakeMacro without the args.reverse() before the push.
ExecMakeMacro_unreversed ==
    /\ Fetch({"MakeMacro"})
    /\ Frame
    /\ \E r \in PopClones(memory, stack,
                          1 + InfoPops(code.macro_build_info[Instr.arg].arg_info)) :
          IF r.st # "ok" THEN Halt(r.st, NoError, r.stk)
          ELSE Push(r.stk,
                    into_stored(
                        MacroV(code.macro_build_info[Instr.arg].func_id,
                               CollectArgs(code.macro_build_info[Instr.arg].arg_info,
                                           Tail(r.vals)),
                               r.vals[1]),
                        get_bytecode_area(ip)))

\* Instruction::MakeMacro(id)
ExecMakeMacro ==
    /\ Fetch({"MakeMacro"})
    /\ Frame
    /\ \E r \in PopClones(memory, stack,
                          1 + InfoPops(code.macro_build_info[Instr.arg].arg_info)) :
          IF r.st # "ok" THEN Halt(r.st, NoError, r.stk)
          ELSE Push(r.stk,
                    into_stored(
                        MacroV(code.macro_build_info[Instr.arg].func_id,
                               Reverse(CollectArgs(code.macro_build_info[Instr.arg].arg_info,
                                                   Tail(r.vals))),
                               r.vals[1]),
                        get_bytecode_area(ip)))

\* Instruction::PushAnyPattern
ExecPushAnyPattern ==
    /\ Fetch({"PushAnyPattern"})
    /\ Frame
    /\ Push(stack, into_stored(PatternAnyV, get_bytecode_area(ip)))

\* Call: the values popped for the entries of param_list that are the empty
\* name, in the order of the pops.
RECURSIVE Positional(_, _)
Positional(param_list, vals) ==
    IF param_list = <<>> THEN <<>>
    ELSE (IF Head(param_list) = "" THEN <<Head(vals)>> ELSE <<>>)
         \o Positional(Tail(param_list), Tail(vals))

\* Call: named_params, an entry per name that is not empty.
Named(param_list, vals) ==
    {e \in Zipped(param_list, vals) : e.key # ""}

\* The panic of the todo!() that ends the Macro arm of Call, with the locals
\* of the arm as they are then.
Todo(params, named_params) ==
    [kind |-> "todo", params |-> params, named_params |-> named_params]

\* Call popping its parameters before it looks at the base.
ExecCall_eager ==
    /\ Fetch({"Call"})
    /\ Frame
    /\ IF stack = <<>> THEN Halt("panic", NoError, <<>>)
       ELSE \E base \in Deref(memory, Top(stack)) :
               IF base.st = "crash" THEN Halt("crash", NoError, Pop1(stack))
               ELSE \E r \in PopClones(memory, Pop1(stack), Len(code.name_sets[Instr.arg])) :
                       IF r.st # "ok" THEN Halt(r.st, NoError, r.stk)
                       ELSE IF base.v.value.t # "Macro"
                       THEN Halt("err", CannotCall(base.v, get_bytecode_area(ip)), r.stk)
                       ELSE Halt("panic",
                                 Todo(Positional(code.name_sets[Instr.arg], r.vals),
                                      Named(code.name_sets[Instr.arg], r.vals)),
                                 r.stk)

\* Instruction::Call(id)
ExecCall ==
    /\ Fetch({"Call"})
    /\ Frame
    /\ IF stack = <<>> THEN Halt("panic", NoError, <<>>)
       ELSE \E base \in Deref(memory, Top(stack)) :
               IF base.st = "crash" THEN Halt("crash", NoError, Pop1(stack))
               ELSE IF base.v.value.t # "Macro"
               THEN Halt("err", CannotCall(base.v, get_bytecode_area(ip)), Pop1(stack))
               ELSE \E r \in PopClones(memory, Pop1(stack), Len(code.name_sets[Instr.arg])) :
                       IF r.st # "ok" THEN Halt(r.st, NoError, r.stk)
                       ELSE Halt("panic",
                                 Todo(Positional(code.name_sets[Instr.arg], r.vals),
                                      Named(code.name_sets[Instr.arg], r.vals)),
                                 r.stk)

\* Instruction::MergeContexts, EnterScope, ExitScope
ExecNoOp ==
    /\ Fetch(NoOps)
    /\ Frame
    /\ Continue(stack, memory, contexts, output)

\* The arms that are todo!()
ExecReserved ==
    /\ Fetch(ReservedOps)
    /\ Frame
    /\ Halt("panic", NoError, stack)

\* The while loop of a context ends and the for loop takes the next context,
\* with its own i = 0 and the stack as it is.
NextContext ==
    /\ estate = "running"
    /\ ip >= Len(code.instructions)
    /\ ctx < Len(contexts)
    /\ ctx' = ctx + 1
    /\ ip' = 0
    /\ UNCHANGED <<code, stack, memory, contexts, output, estate, eerr, parseVars, runVars>>

\* The texts the stack dump may write: every entry is read through its
\* pointer.  "" stands for a fault.
RECURSIVE DumpTexts(_, _)
DumpTexts(mem, stk) ==
    IF stk = <<>> THEN {<<>>}
    ELSE {Append(front, debug_str(d.v.value)) :
              front \in DumpTexts(mem, Pop1(stk)),
              d \in {x \in Deref(mem, Top(stk)) : x.st = "ok"}}

RECURSIVE Join(_)
Join(texts) ==
    IF texts = <<>> THEN ""
    ELSE IF Len(texts) = 1 THEN texts[1]
    ELSE texts[1] \o ", " \o Join(Tail(texts))

\* After the last context: println!("stack: {}", ...) and Ok(()).
Finish ==
    /\ estate = "running"
    /\ ip >= Len(code.instructions)
    /\ ctx = Len(contexts)
    /\ \/ \E texts \in DumpTexts(memory, stack) :
             /\ output' = Append(output, StackLine("stack: " \o Join(texts)))
             /\ estate' = "ok"
       \/ /\ \E k \in 1..Len(stack) : Dangling(memory, stack[k])
          /\ estate' = "crash"
          /\ UNCHANGED output
    /\ UNCHANGED <<code, ctx, ip, stack, memory, contexts, eerr, parseVars, runVars>>

(***************************************************************************)
(*                       THE INPUTS OF execute()                           *)
(***************************************************************************)

\* The longest program drawn from the instruction alphabet.
MaxProgLen == 3
\* The largest number of contexts in globals.contexts.
MaxContexts == 2

\* The constant pool of every drawn program; pool ids count from 1 here.
\*               1        2        3        4        5         6            7
Constants == <<IntV(1), IntV(2), IntV(3), IntV(5), IntV(10), BoolV(TRUE), BoolV(FALSE)>>

\* The variables of every drawn program: x is 1, y is 2.
VarIds == {1, 2}

\* The names pool: two seeded type names and two names that are not.
\*          1      2        3      4
Names == <<"int", "macro", "Int", "number">>

\* The name_sets pool: the keys of a dictionary literal, or the parameter
\* names of a call with "" for a positional argument.
\*             1             2     3                4                  5
NameSets == <<<<"a", "b">>, <<>>, <<"", "x", "">>, <<"a", "b", "c">>, <<"a">>>>

\* An argument descriptor (name, typ, def) of macro_build_info.
Arg(name, typ, def) == [name |-> name, typ |-> typ, def |-> def]

\* The macro_build_info pool: (func_id, arg_info).
MacroBuildInfo ==
    <<[func_id |-> 1, arg_info |-> <<>>],
      [func_id |-> 2, arg_info |-> <<Arg("a", TRUE, TRUE), Arg("b", FALSE, TRUE)>>],
      [func_id |-> 3, arg_info |-> <<Arg("a", TRUE, FALSE), Arg("b", FALSE, FALSE),
                                     Arg("c", FALSE, TRUE)>>],
      [func_id |-> 4, arg_info |-> <<Arg("a", FALSE, TRUE), Arg("b", FALSE, TRUE)>>]>>

Program(instrs, dests) ==
    [instructions |-> instrs, constants |-> Constants, destinations |-> dests,
     names |-> Names, name_sets |-> NameSets, macro_build_info |-> MacroBuildInfo]

\* 1 + 2 * 3;
ProgE1 == Program(<<I("LoadConst", 1), I("LoadConst", 2), I("LoadConst", 3),
                    I0("Mult"), I0("Plus")>>, <<>>)

\* let x = 10; x + 5;
ProgE3 == Program(<<I("LoadConst", 5), I("SetVar", 1), I("LoadVar", 1),
                    I("LoadConst", 4), I0("Plus")>>, <<>>)

\* if true { print(1); } else { print(2); }
ProgE4 == Program(<<I("LoadConst", 6), I("JumpIfFalse", 1),
                    I("LoadConst", 1), I0("Print"), I("Jump", 2),
                    I("LoadConst", 2), I0("Print")>>, <<5, 7>>)

\* if false { print(1); } else { print(2); }
ProgElse == Program(<<I("LoadConst", 7), I("JumpIfFalse", 1),
                      I("LoadConst", 1), I0("Print"), I("Jump", 2),
                      I("LoadConst", 2), I0("Print")>>, <<5, 7>>)

\* let x = 10; let y = x; y = 5; x - y;
ProgCopy == Program(<<I("LoadConst", 5), I("SetVar", 1), I("LoadVar", 1), I("SetVar", 2),
                      I("LoadConst", 4), I("SetVar", 2),
                      I("LoadVar", 1), I("LoadVar", 2), I0("Minus")>>, <<>>)

\* 1 + (2 + (3 + 5));
ProgDeep == Program(<<I("LoadConst", 1), I("LoadConst", 2), I("LoadConst", 3),
                      I("LoadConst", 4), I0("Plus"), I0("Plus"), I0("Plus")>>, <<>>)

\* print(1); print(2 < 3); print(!true); -5;
ProgPrints == Program(<<I("LoadConst", 1), I0("Print"),
                        I("LoadConst", 2), I("LoadConst", 3), I0("Lesser"), I0("Print"),
                        I("LoadConst", 6), I0("Not"), I0("Print"),
                        I("LoadConst", 4), I0("Negate")>>, <<>>)

\* { (); } and an opcode the interpreter does not implement
ProgScopes == Program(<<I0("EnterScope"), I0("PushEmpty"), I0("PopTop"), I0("ExitScope"),
                        I0("MergeContexts"), I0("ToIter"), I("LoadConst", 1)>>, <<>>)

\* Bytecode made by hand: SetVar pops an entry that was pushed three
\* allocations before.
ProgStale == Program(<<I("LoadConst", 1), I("LoadConst", 2), I("LoadConst", 3),
                       I("LoadConst", 4), I0("PopTop"), I("SetVar", 1)>>, <<>>)

\* let x = 10; x + x;
ProgShare == Program(<<I("LoadConst", 5), I("SetVar", 1), I("LoadVar", 1), I("LoadVar", 1),
                       I0("Plus")>>, <<>>)

\* [1, 2, 3]; and an array built on a stack that is too short
ProgArray == Program(<<I("LoadConst", 1), I("LoadConst", 2), I("LoadConst", 3),
                       I("BuildArray", 3), I("BuildArray", 2)>>, <<>>)

\* [[]];
ProgNested == Program(<<I("BuildArray", 0), I("BuildArray", 1)>>, <<>>)

\* The values 1, 2 and the keys a, b of a dictionary; then a dictionary of
\* three keys.
ProgDict == Program(<<I("LoadConst", 1), I("LoadConst", 2), I("BuildDict", 1),
                      I("BuildDict", 4)>>, <<>>)

\* let x = 1; (); then the values of a macro of the arguments a (type,
\* default) and b (default) and the macro.
ProgMacro == Program(<<I("LoadConst", 1), I("SetVar", 1), I0("PushEmpty"), I0("PopTop"),
                       I("LoadConst", 2), I("LoadType", 1), I("LoadConst", 1),
                       I0("PushAnyPattern"), I("MakeMacro", 2)>>, <<>>)

\* The values of a macro of the arguments a and b, each with a default.
ProgMacroPair == Program(<<I("LoadConst", 1), I("LoadConst", 2), I0("PushAnyPattern"),
                           I("MakeMacro", 4)>>, <<>>)

\* The values of a macro of the arguments a (type), b and c (default).
ProgMacroThree == Program(<<I("LoadType", 2), I("LoadConst", 3), I0("PushAnyPattern"),
                            I("MakeMacro", 3), I0("PushAnyPattern"), I("MakeMacro", 1)>>,
                          <<>>)

\* let f = a macro without arguments; f(1, x = 2, 3);
ProgCall == Program(<<I0("PushAnyPattern"), I("MakeMacro", 1), I("SetVar", 1),
                      I("LoadConst", 1), I("LoadConst", 2), I("LoadConst", 3),
                      I("LoadVar", 1), I("Call", 3), I0("Print")>>, <<>>)

\* The same call with the macro built after its arguments were pushed.
ProgCallStale == Program(<<I("LoadConst", 1), I("LoadConst", 2), I("LoadConst", 3),
                           I0("PushAnyPattern"), I("MakeMacro", 1), I("Call", 3)>>, <<>>)

\* 1; 2(a = 1); print(3);  the base of the call is not a macro
ProgCallInt == Program(<<I("LoadConst", 1), I("LoadConst", 1), I("LoadConst", 2),
                         I("Call", 5), I("LoadConst", 3), I0("Print")>>, <<>>)

\* print(@int); @Int; print(1);
ProgTypes == Program(<<I("LoadType", 1), I0("Print"), I("LoadType", 3),
                       I("LoadConst", 1), I0("Print")>>, <<>>)

\* print(1); 1 + true; print(2);
ProgMismatch == Program(<<I("LoadConst", 1), I0("Print"),
                          I("LoadConst", 1), I("LoadConst", 6), I0("Plus"),
                          I("LoadConst", 2), I0("Print")>>, <<>>)

\* if 1 { print(2); }
ProgCondInt == Program(<<I("LoadConst", 1), I("JumpIfFalse", 1),
                         I("LoadConst", 2), I0("Print")>>, <<4>>)

\* while false { }
ProgWhileFalse == Program(<<I("LoadConst", 7), I("JumpIfFalse", 2), I("Jump", 1)>>,
                          <<0, 3>>)

\* A jump beyond the last instruction.
ProgJumpOut == Program(<<I0("PushEmpty"), I("Jump", 1), I0("Print")>>, <<7>>)

\* 1; a reserved opcode; print(2);
ReservedPrograms ==
    {Program(<<I("LoadConst", 1), I0(op), I("LoadConst", 2), I0("Print")>>, <<>>) :
        op \in ReservedOps}

\* Popping instructions on a stack that is empty or too short.
ShortStackPrograms == {
    Program(<<I0("Negate")>>, <<>>),
    Program(<<I0("Not")>>, <<>>),
    Program(<<I("JumpIfFalse", 1), I("LoadConst", 1)>>, <<2>>),
    Program(<<I("MakeMacro", 2)>>, <<>>),
    Program(<<I0("PushAnyPattern"), I("LoadConst", 1), I("MakeMacro", 2)>>, <<>>),
    Program(<<I("Call", 3)>>, <<>>),
    Program(<<I0("PushAnyPattern"), I("MakeMacro", 1), I("Call", 3)>>, <<>>),
    Program(<<I("LoadConst", 1), I("Call", 3)>>, <<>>),
    Program(<<I("LoadConst", 1), I0("PopTop"), I0("PopTop"), I0("PopTop"), I0("Negate")>>,
            <<>>) }

Scenarios == {ProgE1, ProgE3, ProgE4, ProgElse, ProgCopy, ProgDeep, ProgPrints, ProgScopes,
              ProgStale, ProgShare, ProgArray, ProgNested, ProgDict, ProgMacro, ProgMacroPair, ProgMacroThree,
              ProgCall, ProgCallStale, ProgCallInt, ProgTypes, ProgMismatch, ProgCondInt,
              ProgWhileFalse, ProgJumpOut}
              \cup ReservedPrograms \cup ShortStackPrograms

\* a op b; for every binary opcode and every two constants of the pool
\* (the constants 1, 2, 3, 5, true, false: 10 ^ 10 is beyond the integers of
\* the model checker, not beyond the machine's)
OperandIds == {1, 2, 3, 4, 6, 7}

BinOpPrograms ==
    {Program(<<I("LoadConst", a), I("LoadConst", b), I0(op)>>, <<>>) :
        a \in OperandIds, b \in OperandIds, op \in BinaryOps}

Alphabet == {I("LoadConst", 1), I("LoadVar", 1), I("SetVar", 1), I("SetVar", 2),
             I0("Plus"), I0("Print"), I0("PopTop")}

ShortPrograms ==
    {Program(instrs, <<>>) : instrs \in UNION {[1..n -> Alphabet] : n \in 1..MaxProgLen}}

Programs == Scenarios \cup BinOpPrograms \cup ShortPrograms

\* The most instructions a run of more than one context executes when no
\* jump is taken.
MaxSteps == 6

\* The contexts a drawn program runs in: one, or as many as keep the run
\* within MaxSteps.  (Every entry of the stack that points into freed storage
\* multiplies the texts of the dump by the number of things a read of such
\* storage may find.)
MaxContextsOf(c) ==
    Max({1} \cup {n \in 1..MaxContexts : n * Len(c.instructions) <= MaxSteps})

\* A context in which no variable has a value yet: one frame per variable.
NewContext == [vars |-> [id \in VarIds |-> <<NoKey>>]]

ParseIdle ==
    /\ tokens = <<>> /\ pos = 0 /\ ast = EmptyAST /\ statements = <<>>
    /\ pstate = "idle" /\ perr = NoError

\* execute(globals, code, func): an empty stack, the heap of a new Globals.
InitExec ==
    /\ code \in Programs
    /\ contexts \in {[c \in 1..n |-> NewContext] : n \in 1..MaxContextsOf(code)}
    /\ ctx = 1
    /\ ip = 0
    /\ stack = <<>>
    /\ memory = EmptyMemory
    /\ output = <<>>
    /\ estate = "running"
    /\ eerr = NoError
    /\ ParseIdle
    /\ RunIdle

NextExec ==
    \/ ExecBinaryOp
    \/ ExecLoadConst
    \/ ExecUnaryOp
    \/ ExecLoadVar
    \/ ExecSetVar
    \/ ExecPrint
    \/ ExecPushEmpty
    \/ ExecPopTop
    \/ ExecJump
    \/ ExecJumpIfFalse
    \/ ExecNoOp
    \/ ExecReserved
    \/ ExecLoadType
    \/ ExecBuildArray
    \/ ExecBuildDict
    \/ ExecMakeMacro
    \/ ExecPushAnyPattern
    \/ ExecCall
    \/ NextContext
    \/ Finish

ExecSpec == InitExec /\ [][NextExec]_vars

\* The programs of the fair runs: the scenarios but those that read three or
\* more dangling entries in one step (fairness is decided step by step, and
\* such a step has thousands of outcomes).
FairPrograms == Scenarios \ {ProgStale, ProgMacroThree, ProgCallStale}

InitExecFair == InitExec /\ code \in FairPrograms

\* execute() is one sequential loop: while there is a step to take, it is
\* taken.
ExecFairSpec == InitExecFair /\ [][NextExec]_vars /\ WF_vars(NextExec)

(***************************************************************************)
(*                     run_func(): THE LOCKSTEP LOOP                       *)
(***************************************************************************)

\* ReturnType::Implicit, ReturnType::Explicit(_)
Implicit == "Implicit"
Explicit == "Explicit"

\* A context of the FullContext: context.inner().pos and .returned, and
\* whether the context has been marked to be dropped.
Context(p, r) == [pos |-> p, returned |-> r, yeeted |-> FALSE]

\* contexts.iter(SkipReturns): the contexts that have not returned.
SkipReturns(cs) == {c \in 1..Len(cs) : cs[c].returned = None}

\* contexts.iter(IncludeReturns): every context.
IncludeReturns(cs) == 1..Len(cs)

\* The contexts the for loop of the pass has still to take.
Remaining(cs, cur) == {c \in SkipReturns(cs) : c > cur}

\* What an instruction function gives back: Ok(()) with the context as it
\* leaves it, or Err(_), which the ? of the match returns from run_func.
RunOk(cx) == [st |-> "ok", cx |-> cx]
RunErr(cx) == [st |-> "err", cx |-> cx]

\* instructions::run_push_empty: the position and the return mark are left
\* alone.
run_push_empty(cx) == {RunOk(cx)}

\* instructions::run_index: an error when the value cannot be indexed.
run_index(cx) == {RunOk(cx), RunErr(cx)}

\* instructions::run_jump: the increment that follows makes the position
\* the destination.
run_jump(cx, to) == {RunOk(Context(to - 1, cx.returned))}

\* instructions::run_jump_if_false: the jump is taken when the value popped
\* from the stack of the context is false.
run_jump_if_false(cx, to) == {RunOk(cx), RunOk(Context(to - 1, cx.returned))}

\* instructions::run_return: the context has returned a value.
run_return(cx) == {RunOk(Context(cx.pos, Some(Explicit)))}

\* for context in context.iter(SkipReturns): pos += 1, and the mark
\* Implicit with the first position at the end of the list.
Advance_late(cx, len) ==
    IF cx.returned # None THEN cx
    ELSE IF cx.pos + 1 > len THEN Context(cx.pos + 1, Some(Implicit))
    ELSE Context(cx.pos + 1, None)

\* for context in context.iter(SkipReturns): pos += 1, and the mark
\* Implicit when pos >= instructions.len().
Advance(cx, len) ==
    IF cx.returned # None THEN cx
    ELSE IF cx.pos + 1 >= len THEN Context(cx.pos + 1, Some(Implicit))
    ELSE Context(cx.pos + 1, None)

ExecRunIdle == ParseIdle /\ ExecIdle

\* set all context positions to 0: one context after the other, up to the
\* first whose assert!(returned.is_none()) fails.
ResetPositions ==
    /\ rstate = "entry"
    /\ LET bad == {c \in IncludeReturns(full) : full[c].returned # None}
       IN  IF bad = {}
           THEN /\ full' = [c \in 1..Len(full) |-> Context(0, full[c].returned)]
                /\ rstate' = "loop"
           ELSE /\ full' = [c \in 1..Len(full) |->
                               IF c <= Min(bad) THEN Context(0, full[c].returned)
                               ELSE full[c]]
                /\ rstate' = "panic"
    /\ startOf' = full'
    /\ UNCHANGED <<instructions, cursor, finished, ran, parseVars, execVars>>

\* if instructions.is_empty() { break; }
EmptyBreak ==
    /\ rstate = "loop"
    /\ instructions = <<>>
    /\ rstate' = "after"
    /\ UNCHANGED <<instructions, full, cursor, finished, startOf, ran, parseVars, execVars>>

\* for context in contexts.iter(SkipReturns): the context of this turn and
\* the instruction at its position, instructions[pos as usize].
TurnOf == Min(Remaining(full, cursor))
Fetched == instructions[full[TurnOf].pos + 1]

AtInstr(op) ==
    /\ rstate = "loop"
    /\ instructions # <<>>
    /\ Remaining(full, cursor) # {}
    /\ full[TurnOf].pos \in 0..(Len(instructions) - 1)
    /\ Fetched.op = op

\* One turn of the for loop: the instruction function, its ?, then the
\* increment of the position.
Turn(results) ==
    /\ \E r \in results :
          /\ IF r.st = "ok"
             THEN /\ full' = [full EXCEPT ![TurnOf] = Advance(r.cx, Len(instructions))]
                  /\ UNCHANGED rstate
             ELSE /\ full' = [full EXCEPT ![TurnOf] = r.cx]
                  /\ rstate' = "err"
    /\ ran' = Append(ran, [c |-> TurnOf, at |-> full[TurnOf].pos, instr |-> Fetched])
    /\ cursor' = TurnOf
    /\ finished' = FALSE
    /\ UNCHANGED <<instructions, startOf, parseVars, execVars>>

\* Instruction::PushEmpty
RunPushEmpty ==
    /\ AtInstr("PushEmpty")
    /\ Turn(run_push_empty(full[TurnOf]))

\* Instruction::Index
RunIndex ==
    /\ AtInstr("Index")
    /\ Turn(run_index(full[TurnOf]))

\* Instruction::Jump(a)
RunJump ==
    /\ AtInstr("Jump")
    /\ Turn(run_jump(full[TurnOf], Fetched.arg))

\* Instruction::JumpIfFalse(a)
RunJumpIfFalse ==
    /\ AtInstr("JumpIfFalse")
    /\ Turn(run_jump_if_false(full[TurnOf], Fetched.arg))

\* Instruction::Return
RunReturn ==
    /\ AtInstr("Return")
    /\ Turn(run_return(full[TurnOf]))

\* The for loop of the pass has taken every context that had not returned.
EndFor ==
    /\ rstate = "loop"
    /\ instructions # <<>>
    /\ Remaining(full, cursor) = {}
    /\ rstate' = "pass_end"
    /\ UNCHANGED <<instructions, full, cursor, finished, startOf, ran, parseVars, execVars>>

\* if finished { break 'instruction_loop; }
BreakLoop ==
    /\ rstate = "pass_end"
    /\ finished
    /\ rstate' = "after"
    /\ UNCHANGED <<instructions, full, cursor, finished, startOf, ran, parseVars, execVars>>

\* The next pass of 'instruction_loop: let mut finished = true.
NextPass ==
    /\ rstate = "pass_end"
    /\ ~finished
    /\ rstate' = "loop"
    /\ finished' = TRUE
    /\ cursor' = 0
    /\ startOf' = full
    /\ ran' = <<>>
    /\ UNCHANGED <<instructions, full, parseVars, execVars>>

\* .any(|c| matches!(c.inner().returned, Some(ReturnType::Explicit(_))))
AnyExplicit(cs) == \E c \in IncludeReturns(cs) : cs[c].returned = Some(Explicit)

\* FullContext::yeet_implicit: the contexts that returned without a value
\* are marked to be dropped.
yeet_implicit(cs) ==
    [c \in 1..Len(cs) |->
        IF cs[c].returned = Some(Implicit) THEN [cs[c] EXCEPT !.yeeted = TRUE] ELSE cs[c]]

\* FullContext::clean_yeeted: the marked contexts are dropped.
RECURSIVE clean_yeeted(_)
clean_yeeted(cs) ==
    IF cs = <<>> THEN <<>>
    ELSE (IF Head(cs).yeeted THEN <<>> ELSE <<Head(cs)>>) \o clean_yeeted(Tail(cs))

\* After the loop: contexts.yeet_implicit() when a context has returned a
\* value.
YeetImplicit ==
    /\ rstate = "after"
    /\ AnyExplicit(full)
    /\ full' = yeet_implicit(full)
    /\ rstate' = "yeeted"
    /\ UNCHANGED <<instructions, cursor, finished, startOf, ran, parseVars, execVars>>

\* contexts.clean_yeeted(), after yeet_implicit() or without it.
CleanYeeted ==
    /\ \/ rstate = "yeeted"
       \/ rstate = "after" /\ ~AnyExplicit(full)
    /\ full' = clean_yeeted(full)
    /\ rstate' = "cleaned"
    /\ UNCHANGED <<instructions, cursor, finished, startOf, ran, parseVars, execVars>>

\* Ok(())
ReturnOk ==
    /\ rstate = "cleaned"
    /\ rstate' = "ok"
    /\ UNCHANGED <<instructions, full, cursor, finished, startOf, ran, parseVars, execVars>>

\* Instruction lists of a function.
RunPrograms == {
    <<>>,
    <<I0("PushEmpty")>>,
    <<I0("PushEmpty"), I0("Index"), I0("PushEmpty")>>,
    <<I0("PushEmpty"), I("JumpIfFalse", 3), I0("PushEmpty"), I0("PushEmpty")>>,
    <<I("JumpIfFalse", 2), I0("Return"), I0("PushEmpty")>>,
    <<I0("PushEmpty"), I("Jump", 3), I0("Index"), I0("PushEmpty")>>,
    <<I("JumpIfFalse", 0)>>,
    <<I0("PushEmpty"), I("JumpIfFalse", 0), I0("Return")>> }

\* The contexts run_func is given: new ones, ones with the positions an
\* earlier call left, and ones of which the last has returned.
Entries ==
    UNION {{[c \in 1..n |-> Context(0, None)],
            [c \in 1..n |-> Context(c, None)],
            [c \in 1..n |-> IF c = n THEN Context(c, Some(Implicit)) ELSE Context(c, None)]} :
           n \in 1..(MaxContexts + 1)}

\* run_func(globals, code, fn_index, contexts, comp_globals)
InitRun ==
    /\ instructions \in RunPrograms
    /\ full \in Entries
    /\ cursor = 0
    /\ finished = TRUE
    /\ rstate = "entry"
    /\ startOf = <<>>
    /\ ran = <<>>
    /\ ExecRunIdle

NextRun ==
    \/ ResetPositions
    \/ EmptyBreak
    \/ RunPushEmpty
    \/ RunIndex
    \/ RunJump
    \/ RunJumpIfFalse
    \/ RunReturn
    \/ EndFor
    \/ BreakLoop
    \/ NextPass
    \/ YeetImplicit
    \/ CleanYeeted
    \/ ReturnOk

RunFuncSpec == InitRun /\ [][NextRun]_vars

(***************************************************************************)
(*                       PROPERTIES OF THE PARSER                          *)
(***************************************************************************)

\* The expression tree under an ExprKey, written out.
RECURSIVE Tree(_, _)
TreeOfKeys(a, ks) == [i \in 1..Len(ks) |-> Tree(a, ks[i])]
Tree(a, k) ==
    LET n == get_expr(a, k)
    IN  CASE n.tag = "Op"      -> <<"Op", Tree(a, n.left), n.op.k, Tree(a, n.right)>>
          [] n.tag = "Unary"   -> <<"Unary", n.op.k, Tree(a, n.expr)>>
          [] n.tag = "Var"     -> <<"Var", n.name>>
          [] n.tag = "Literal" -> <<"Literal", n.typ, n.v>>
          [] n.tag = "Array"   -> <<"Array", TreeOfKeys(a, n.elems)>>
          [] n.tag = "Index"   -> <<"Index", Tree(a, n.base), Tree(a, n.index)>>
          [] OTHER             -> <<"Empty">>

\* The tree a unit token stands for.
Leaf(t) == IF t.k = "Ident" THEN <<"Var", t.v>> ELSE <<"Literal", "Int", t.v>>
OpT(l, op, r) == <<"Op", l, op.k, r>>
NegT(e) == <<"Unary", "Minus", e>>

\* The token kinds of the list being parsed, and its k-th token (1-based).
Kinds == [i \in 1..Len(tokens) |-> tokens[i].tok.k]
TokAt(i) == tokens[i].tok

UnitKinds == {"Ident", "Int"}
InfixKinds == {"Plus", "Minus", "Mult", "Div", "Mod", "Pow"}

\* The rows of the precedence table, as the specification gives them.
RowOf(k) == CASE k \in {"Plus", "Minus"} -> 0
              [] k \in {"Mult", "Div", "Mod"} -> 2
              [] k = "Pow" -> 3

\* The root of the first statement, an expression statement.
Root1 == Tree(ast, get_stmt(ast, statements[1]).expr)

\* The source text is  x op1 y op2 z ;
IsTriple ==
    /\ Len(tokens) = 7
    /\ Kinds[1] \in UnitKinds /\ Kinds[2] \in InfixKinds /\ Kinds[3] \in UnitKinds
    /\ Kinds[4] \in InfixKinds /\ Kinds[5] \in UnitKinds
    /\ Kinds[6] = "Eol" /\ Kinds[7] = "Eof"

LeftNested  == OpT(OpT(Leaf(TokAt(1)), TokAt(2), Leaf(TokAt(3))), TokAt(4), Leaf(TokAt(5)))
RightNested == OpT(Leaf(TokAt(1)), TokAt(2), OpT(Leaf(TokAt(3)), TokAt(4), Leaf(TokAt(5))))

\* C1: in  a op_low b op_high c  the higher row binds tighter, whichever
\* side it is on:  a op_low b op_high c  is Op(a, op_low, Op(b, op_high, c))
\* and  a op_high b op_low c  is Op(Op(a, op_high, b), op_low, c).
C1_Precedence ==
    IsTriple =>
        /\ pstate \in {"parsing", "ok"}
        /\ pstate = "ok" =>
            /\ Len(statements) = 1
            /\ RowOf(Kinds[4]) > RowOf(Kinds[2]) => Root1 = RightNested
            /\ RowOf(Kinds[2]) > RowOf(Kinds[4]) => Root1 = LeftNested

C1_Witness ==
    /\ IsTriple /\ pstate = "ok"
    /\ Kinds[2] = "Minus" /\ Kinds[4] = "Pow"
    /\ Root1 = RightNested

\* C3: operators of one LeftAssoc row associate to the left:
\* a op1 b op2 c  is Op(Op(a, op1, b), op2, c).
C3_LeftAssoc ==
    (IsTriple /\ RowOf(Kinds[2]) = RowOf(Kinds[4]) /\ RowOf(Kinds[2]) \in {0, 2}) =>
        /\ pstate \in {"parsing", "ok"}
        /\ pstate = "ok" => (Len(statements) = 1 /\ Root1 = LeftNested)

C3_Witness ==
    /\ IsTriple /\ pstate = "ok"
    /\ Kinds[2] = "Plus" /\ Kinds[4] = "Plus"
    /\ Root1 = LeftNested

\* The source text is  a ^ b ^ c ... ;  with n operators, all of them ^.
IsPowChain(n) ==
    /\ Len(tokens) = 2 * n + 3
    /\ \A i \in 1..(n + 1) : Kinds[2 * i - 1] \in UnitKinds
    /\ \A i \in 1..n : Kinds[2 * i] = "Pow"
    /\ Kinds[2 * n + 2] = "Eol" /\ Kinds[2 * n + 3] = "Eof"

\* x1 ^ (x2 ^ (... ^ xn+1)), from the i-th operand on.
RECURSIVE RightChain(_, _)
RightChain(i, n) ==
    IF i = n + 1 THEN Leaf(TokAt(2 * i - 1))
    ELSE OpT(Leaf(TokAt(2 * i - 1)), TokAt(2 * i), RightChain(i + 1, n))

\* C4: ^ associates to the right: in a chain of ^ every node's right child
\* is the rest of the chain.
C4_RightAssoc ==
    \A n \in 2..MaxOps :
        IsPowChain(n) =>
            /\ pstate \in {"parsing", "ok"}
            /\ pstate = "ok" => (Len(statements) = 1 /\ Root1 = RightChain(1, n))

C4_Witness ==
    /\ IsPowChain(MaxOps) /\ pstate = "ok"
    /\ Root1 = RightChain(1, MaxOps)

\* The source text is  - x op y ;
IsNegPair ==
    /\ Len(tokens) = 6
    /\ Kinds[1] = "Minus" /\ Kinds[2] \in UnitKinds /\ Kinds[3] \in InfixKinds
    /\ Kinds[4] \in UnitKinds /\ Kinds[5] = "Eol" /\ Kinds[6] = "Eof"

\* C2 as stated: a unary minus takes the single unit after it, also before
\* an operator of a higher row:  -a * b  is Op(Unary(-, a), *, b)  and
\* -2 ^ 2  is Op(Unary(-, 2), ^, 2).
C2_Original ==
    (IsNegPair /\ pstate = "ok" /\ RowOf(Kinds[3]) > 1) =>
        Root1 = OpT(NegT(Leaf(TokAt(2))), TokAt(3), Leaf(TokAt(4)))

\* C2, amended: the operand of a unary minus takes in the operators of the
\* rows above the minus:  -a * b  is Unary(-, Op(a, *, b))  and  -2 ^ 2  is
\* Unary(-, Op(2, ^, 2));  it stops before an operator of row 0:  -a + b  is
\* Op(Unary(-, a), +, b).
C2_UnaryOperand ==
    IsNegPair =>
        /\ pstate \in {"parsing", "ok"}
        /\ pstate = "ok" =>
            /\ Len(statements) = 1
            /\ RowOf(Kinds[3]) > 1 =>
                  Root1 = NegT(OpT(Leaf(TokAt(2)), TokAt(3), Leaf(TokAt(4))))
            /\ RowOf(Kinds[3]) < 1 =>
                  Root1 = OpT(NegT(Leaf(TokAt(2))), TokAt(3), Leaf(TokAt(4)))

C2_Witness ==
    /\ IsNegPair /\ pstate = "ok"
    /\ Kinds[2] = "Int" /\ Kinds[3] = "Pow"
    /\ Root1 = NegT(OpT(Leaf(TokAt(2)), TokAt(3), Leaf(TokAt(4))))

\* The index (1-based) of the token a span ends with.
LastTokenOf(ar) == CHOOSE i \in 1..Len(tokens) : tokens[i].span[2] = ar[2]

\* ts is the beginning of the token list being parsed.
StartsWith(ts) ==
    /\ Len(ts) < Len(tokens)
    /\ \A i \in 1..Len(ts) : TokAt(i) = ts[i]

\* Token kinds that cannot carry on an expression.
StartKinds == {"Let", "If", "While", "For", "Ident", "Int", "Eof", "RBracket"}

BlockStatements == {"If", "While", "For"}

\* C8: a statement that ends with } needs no semicolon, any other statement
\* needs one and fails with Expected ";" without it, and the whole run of
\* semicolons after a statement is consumed with it.
C8_Terminator ==
    /\ pstate # "panic"
    /\ \A k \in 1..Len(ast.stmts) :
          LET s    == ast.stmts[k]
              last == LastTokenOf(s.area)
          IN  /\ Kinds[last] \in {"Eol", "RBracket"}
              /\ s.node.tag \notin BlockStatements => Kinds[last] = "Eol"
              /\ Kinds[last] = "RBracket" => s.node.tag \in BlockStatements
              /\ Kinds[last + 1] # "Eol"
    /\ (pstate = "err" /\ perr.expected = ";") =>
          /\ pos >= 1
          /\ Kinds[pos + 1] # "Eol"
          /\ Kinds[pos] # "RBracket"
    /\ \A b \in PlainBodies \cup BlockBodies :
          (StartsWith(b) /\ Kinds[Len(b) + 1] \in StartKinds /\ pstate # "parsing") =>
              IF b \in BlockBodies
              THEN pstate = "err" => pos > Len(b)
              ELSE /\ pstate = "err"
                   /\ perr.expected = ";"
                   /\ pos = Len(b)
                   /\ Len(ast.stmts) = 0

C8_Witness ==
    /\ pstate = "ok" /\ Len(statements) = 2
    /\ get_stmt(ast, statements[1]).tag = "If"
    /\ Kinds[LastTokenOf(ast.stmts[statements[1]].area)] = "RBracket"
    /\ get_stmt(ast, statements[2]).tag = "Declaration"
    /\ LET last == LastTokenOf(ast.stmts[statements[2]].area)
       IN  Kinds[last] = "Eol" /\ Kinds[last - 1] = "Eol"

\* The number of leading tokens the list being parsed shares with ts.
RECURSIVE CommonPrefix(_, _)
CommonPrefix(ts, n) ==
    IF n < Len(ts) /\ n < Len(tokens) /\ TokAt(n + 1) = ts[n + 1]
    THEN CommonPrefix(ts, n + 1) ELSE n

\* The list being parsed is ts with = put in the place of its k-th token.
HasAssignAt(ts, k) ==
    /\ k <= Len(ts) /\ ts[k] # TAssign
    /\ Len(tokens) >= k /\ TokAt(k) = TAssign
    /\ CommonPrefix(ts, 0) = k - 1

\* C9: the parser stops at the first token the grammar does not allow, with
\* one SyntaxError::Expected that carries the span, the class and the lexeme
\* of that token; nothing from that token on has been consumed.
C9_FailFast ==
    /\ pstate = "err" =>
          /\ perr.kind = "Expected"
          /\ pos < Len(tokens)
          /\ perr.area = tokens[pos + 1].span
          /\ perr.typ = tok_typ(TokAt(pos + 1))
          /\ perr.found = tok_name(TokAt(pos + 1))
          /\ \A k \in 1..Len(ast.exprs) : ast.exprs[k].area[2] < tokens[pos + 1].span[1]
          /\ \A k \in 1..Len(ast.stmts) : ast.stmts[k].area[2] < tokens[pos + 1].span[1]
          /\ \A w \in WellFormed : pos >= CommonPrefix(w, 0)
    /\ pstate = "ok" => perr = NoError
    /\ \A w \in WellFormed : \A k \in 1..Len(w) :
          (HasAssignAt(w, k) /\ pstate # "parsing") =>
              (pstate = "err" /\ pos = k - 1 /\ perr.found = "=")

C9_Witness ==
    /\ pstate = "err" /\ perr.kind = "Expected"
    /\ pos = 5 /\ perr.area = <<10, 11>>
    /\ perr.expected = "expression" /\ perr.found = "="
    /\ Kinds[1] = "Let" /\ Len(ast.exprs) = 1 /\ Len(ast.stmts) = 0

(***************************************************************************)
(*                     PROPERTIES OF THE INTERPRETER                       *)
(***************************************************************************)

\* The heap entry a stack entry was pushed for.
Pushed(ptr) == memory.slots[ptr.idx]

\* The stack entries the instruction at i reads through their pointers
\* (PopTop drops its entry without reading it); at the end of the last
\* context, the entries the stack dump reads.
EntriesRead ==
    IF ip < Len(code.instructions)
    THEN CASE Instr.op \in BinaryOps -> {k \in 1..Len(stack) : k > Len(stack) - 2}
           [] Instr.op \in {"Negate", "Not", "SetVar", "Print", "JumpIfFalse"} ->
                 {k \in 1..Len(stack) : k = Len(stack)}
           [] OTHER -> {}
    ELSE IF ctx = Len(contexts) THEN 1..Len(stack) ELSE {}

\* C5: a stack entry still designates the heap entry it was pushed for when
\* it is read, however many allocations there were since its push.
C5_StableEntries ==
    estate = "running" => \A k \in EntriesRead : ~Dangling(memory, stack[k])

\* The values the stack designates, bottom first.
StackValues == [k \in 1..Len(stack) |-> Pushed(stack[k]).value]

\* The last context has run its last instruction.
AtEnd == estate = "running" /\ ctx = Len(contexts) /\ ip >= Len(code.instructions)

\* C6: a binary opcode pops b, then a, and pushes one new entry that holds
\* value_op(a, b); the stack shrinks by one, the heap grows by one.  So
\* 1 + 2 * 3 leaves exactly 7 on the stack and  let x = 10; x + 5  leaves 15
\* on top.
C6_BinaryOps ==
    /\ [][(Fetch(BinaryOps) /\ Len(stack) >= 2 /\ estate' = "running") =>
            LET n == Len(stack)
                r == value_op(Instr.op, Pushed(stack[n - 1]), Pushed(stack[n]),
                              get_bytecode_area(ip))
                new == Len(memory.slots) + 1
            IN  /\ r.st = "ok"
                /\ Len(stack') = n - 1
                /\ SubSeq(stack', 1, n - 2) = SubSeq(stack, 1, n - 2)
                /\ Len(memory'.slots) = new
                /\ SubSeq(memory'.slots, 1, new - 1) = memory.slots
                /\ stack'[n - 1].idx = new
                /\ memory'.slots[new] = r.v]_vars
    /\ []((AtEnd /\ Len(contexts) = 1 /\ code = ProgE1) => StackValues = <<IntV(7)>>)
    /\ []((AtEnd /\ Len(contexts) = 1 /\ code = ProgE3) =>
            (Len(stack) >= 1 /\ StackValues[Len(stack)] = IntV(15)))

\* The keys bound to the variables of a context that have a value.
BoundKeys(c) == {get_var(contexts[c], id) : id \in VarIds} \ {NoKey}

\* C7: SetVar(id) pops one entry, stores a copy of the value it read from
\* it (for an entry whose pointer is valid, the heap value the entry was
\* pushed for) under a new key and binds id to that key, and changes nothing
\* else: no two variables ever share a key, and the binding and the value of
\* every other variable stay as they are.
C7_SetVarCopies ==
    /\ [][(Fetch({"SetVar"}) /\ Len(stack) >= 1 /\ estate' = "running") =>
            LET new == Len(memory.slots) + 1
                id  == Instr.arg
            IN  /\ stack' = Pop1(stack)
                /\ Len(memory'.slots) = new
                /\ SubSeq(memory'.slots, 1, new - 1) = memory.slots
                /\ \E top \in Deref(memory, Top(stack)) :
                      top.st = "ok" /\ memory'.slots[new] = top.v
                /\ ~Dangling(memory, Top(stack)) =>
                      memory'.slots[new] = Pushed(Top(stack))
                /\ get_var(contexts'[ctx], id) = new
                /\ Len(contexts'[ctx].vars[id]) = Len(contexts[ctx].vars[id])
                /\ \A c \in 1..Len(contexts), v \in VarIds :
                      (c # ctx \/ v # id) => contexts'[c].vars[v] = contexts[c].vars[v]
                /\ \A c \in 1..Len(contexts) : new \notin BoundKeys(c)]_vars
    /\ [](\A c \in 1..Len(contexts) : \A v, w \in VarIds :
            (v # w /\ get_var(contexts[c], v) # NoKey) =>
                get_var(contexts[c], v) # get_var(contexts[c], w))
    /\ [][\A c \in 1..Len(contexts) : \A v \in VarIds :
            LET key == get_var(contexts[c], v)
            IN  (key # NoKey /\ get_var(contexts'[c], v) = key) =>
                    memory'.slots[key] = memory.slots[key]]_vars

\* let x = 10; let y = x; y = 5;  has run: x and y have their own keys, y
\* holds 5 and x still holds 10.
C7_Witness ==
    /\ code = ProgCopy /\ Len(contexts) = 1 /\ ip = 6 /\ estate = "running"
    /\ get_var(contexts[1], 1) = 2
    /\ get_var(contexts[1], 2) = 5
    /\ memory.slots[2].value = IntV(10)
    /\ memory.slots[5].value = IntV(5)

\* The number of Print instructions among the instructions of a list.
RECURSIVE CountPrints(_)
CountPrints(instrs) ==
    IF instrs = <<>> THEN 0
    ELSE (IF instrs[1].op = "Print" THEN 1 ELSE 0) + CountPrints(Tail(instrs))

\* C10: only a Print writes to standard output, one line each:
\* if true { print(1); } else { print(2); }  writes the one line "1", and a
\* program without a Print writes nothing.
C10_OnlyPrintWrites ==
    /\ \A k \in 1..Len(output) : output[k].by = "Print"
    /\ (estate = "ok" /\ Len(contexts) = 1 /\ code = ProgE4) => output = <<PrintLine("1")>>
    /\ CountPrints(code.instructions) = 0 => output = <<>>

\* The stack entry of the k-th of the n values an instruction finds on top
\* of the stack, in the order of their pushes.
NthPushed(k, n) == stack[Len(stack) - n + k]

\* C11: BuildDict(id) pops exactly |name_sets[id]| values and pushes one
\* Dict in which the k-th key of name_sets[id] maps to the k-th of those
\* values in the order of their pushes (the source order).
C11_BuildDict ==
    [][(Fetch({"BuildDict"}) /\ estate' = "running") =>
          LET keys == code.name_sets[Instr.arg]
              n    == Len(keys)
              new  == Len(memory.slots) + 1
          IN  /\ Len(stack) >= n
              /\ Len(stack') = Len(stack) - n + 1
              /\ SubSeq(stack', 1, Len(stack) - n) = SubSeq(stack, 1, Len(stack) - n)
              /\ stack'[Len(stack')].idx = new
              /\ Len(memory'.slots) = new
              /\ memory'.slots[new].value.t = "Dict"
              /\ \A k \in 1..n :
                    \E d \in Deref(memory, NthPushed(k, n)) :
                        /\ d.st = "ok"
                        /\ [key |-> keys[k], val |-> d.v] \in memory'.slots[new].value.map]_vars

\* C12: JumpIfFalse(id) pops exactly one stack entry whether or not it takes
\* the branch and leaves the heap as it is; the instruction index becomes
\* destinations[id] when the value it read is false and i + 1 when it is
\* true (for an entry whose pointer is valid, the value the entry was pushed
\* for).
C12_JumpIfFalse ==
    [][(Fetch({"JumpIfFalse"}) /\ Len(stack) >= 1) =>
          LET dest == code.destinations[Instr.arg]
          IN  /\ stack' = Pop1(stack)
              /\ memory' = memory
              /\ estate' = "running" =>
                    \E top \in Deref(memory, Top(stack)) :
                        /\ top.st = "ok"
                        /\ top.v.value \in {BoolV(TRUE), BoolV(FALSE)}
                        /\ top.v.value = BoolV(FALSE) => ip' = dest
                        /\ top.v.value = BoolV(TRUE) => ip' = ip + 1
              /\ (~Dangling(memory, Top(stack)) /\ Pushed(Top(stack)).value = BoolV(FALSE)) =>
                    (estate' = "running" /\ ip' = dest)
              /\ (~Dangling(memory, Top(stack)) /\ Pushed(Top(stack)).value = BoolV(TRUE)) =>
                    (estate' = "running" /\ ip' = ip + 1)]_vars

\* if false { print(1); } else { print(2); }  has taken its branch to the
\* else block: the condition is popped, its heap entry is still there.
C12_Witness ==
    /\ code = ProgElse /\ Len(contexts) = 1 /\ estate = "running"
    /\ ip = 5 /\ stack = <<>>
    /\ Len(memory.slots) = 1 /\ memory.slots[1].value = BoolV(FALSE)

\* C13: Jump(id) sets the instruction index to exactly destinations[id] and
\* leaves stack and heap as they are; once the index is at or beyond the
\* instruction count no instruction of the context runs any more (the next
\* context starts, or execute ends); so  while false { }  always ends, with
\* an empty stack.
C13_Jump ==
    /\ [][Fetch({"Jump"}) =>
            /\ ip' = code.destinations[Instr.arg]
            /\ stack' = stack /\ memory' = memory /\ contexts' = contexts
            /\ output' = output /\ estate' = "running"]_vars
    /\ [][(estate = "running" /\ ip >= Len(code.instructions)) =>
            /\ stack' = stack /\ memory' = memory /\ contexts' = contexts
            /\ \/ ctx < Len(contexts) /\ ctx' = ctx + 1 /\ ip' = 0 /\ estate' = "running"
               \/ ctx = Len(contexts) /\ estate' \in {"ok", "crash"}]_vars
    /\ (code = ProgWhileFalse) ~> (estate = "ok" /\ stack = <<>>)

\* A jump beyond the last instruction has ended execute: the Print after
\* the Jump wrote nothing, the entry pushed before it is still on the stack.
C13_Witness ==
    /\ code = ProgJumpOut /\ Len(contexts) = 1 /\ estate = "ok"
    /\ ip = 7 /\ Len(stack) = 1
    /\ output = <<StackLine("stack: Empty")>>

\* The tokens a source area starts and ends with (the token that starts at
\* the area's first offset, the token that ends at its last).
FirstTok(ar) == tokens[ar[1] \div 2 + 1].tok
LastTok(ar) == tokens[(ar[2] - 1) \div 2 + 1].tok

\* An area starts at s, or at an opening parenthesis among those right
\* before s; an area ends at e, or at a closing parenthesis among those
\* right after e.
OpensBefore(ar, s) ==
    /\ ar[1] <= s
    /\ \A i \in 1..Len(tokens) :
          (ar[1] <= tokens[i].span[1] /\ tokens[i].span[1] < s) => tokens[i].tok = TLParen
ClosesAfter(ar, e) ==
    /\ e <= ar[2]
    /\ \A i \in 1..Len(tokens) :
          (e < tokens[i].span[2] /\ tokens[i].span[2] <= ar[2]) => tokens[i].tok = TRParen

\* C14: the area of every expression node in the arena starts at the start
\* of the first token of the node's text and ends at the end of its last
\* token: a literal or a variable spans its token, () spans from ( to ), an
\* array from [ to ], a unary node from its operator to the end of its
\* operand, an Op from the start of its left operand to the end of its
\* right operand, an Index from the start of its base to the closing ].
C14_NodeAreas ==
    \A k \in 1..Len(ast.exprs) :
        LET n  == get_expr(ast, k)
            ar == area(ast, k)
        IN  CASE n.tag \in {"Literal", "Var"} ->
                   /\ ar[2] = ar[1] + 1
                   /\ tok_typ(FirstTok(ar)) = (IF n.tag = "Var" THEN "identifier" ELSE "literal")
              [] n.tag = "Empty" ->
                   /\ FirstTok(ar) = TLParen /\ LastTok(ar) = TRParen
                   /\ ar[2] = ar[1] + 3
              [] n.tag = "Array" ->
                   /\ FirstTok(ar) = TLSq /\ LastTok(ar) = TRSq
                   /\ \A j \in 1..Len(n.elems) :
                         ar[1] < area(ast, n.elems[j])[1] /\ area(ast, n.elems[j])[2] < ar[2]
              [] n.tag = "Unary" ->
                   /\ FirstTok(ar) = n.op
                   /\ ar[1] < area(ast, n.expr)[1]
                   /\ ClosesAfter(ar, area(ast, n.expr)[2])
              [] n.tag = "Op" ->
                   /\ OpensBefore(ar, area(ast, n.left)[1])
                   /\ ClosesAfter(ar, area(ast, n.right)[2])
              [] n.tag = "Index" ->
                   /\ OpensBefore(ar, area(ast, n.base)[1])
                   /\ LastTok(ar) = TRSq
                   /\ area(ast, n.base)[2] < area(ast, n.index)[1]
                   /\ area(ast, n.index)[2] < ar[2]

\* The longest array text the array property speaks about.
MaxElems == 3

\* The tree of a token that is an expression by itself.
LeafTree(t) == IF t.k = "Ident" THEN <<"Var", t.v>> ELSE <<"Literal", "Int", t.v>>

\* The list being parsed starts with [ e1 , ... , en: n elements of one
\* token each, a comma after each of the first n - 1.
ArrayStart(n) ==
    /\ Len(tokens) >= 2 * n + 1
    /\ Kinds[1] = "LSqBracket"
    /\ \A i \in 1..n : Kinds[2 * i] \in UnitKinds
    /\ \A i \in 1..(n - 1) : Kinds[2 * i + 1] = "Comma"

\* The index of the ] that closes an array text of n elements.
ArrayClose(n, trailing) ==
    IF n = 0 THEN 2 ELSE 2 * n + 1 + (IF trailing THEN 1 ELSE 0)

\* The list being parsed starts with the statement  [ e1 , ... , en ] ;
\* or, with a trailing comma,  [ e1 , ... , en , ] ;
ArrayText(n, trailing) ==
    /\ ArrayStart(n)
    /\ Len(tokens) >= ArrayClose(n, trailing) + 1
    /\ trailing => (n >= 1 /\ Kinds[2 * n + 1] = "Comma")
    /\ Kinds[ArrayClose(n, trailing)] = "RSqBracket"
    /\ Kinds[ArrayClose(n, trailing) + 1] = "Eol"

\* The list being parsed starts with [ e1 , ... , en and a token that is
\* neither ] nor , and does not go on with the element.
ElementUnclosed(n) ==
    /\ n >= 1 /\ ArrayStart(n)
    /\ Kinds[2 * n + 1] \notin {"RSqBracket", "Comma", "LSqBracket"} \cup InfixKinds

\* C15: [ followed by zero or more elements, each followed by , or ], with
\* one optional trailing comma before ], parses to the Array of the elements
\* in source order; an element followed by any other token yields
\* SyntaxError::Expected "] or ," at that token.
C15_ArrayLiteral ==
    /\ \A n \in 0..MaxElems : \A trailing \in BOOLEAN :
          ArrayText(n, trailing) =>
              \/ pos = 0 /\ pstate = "parsing"
              \/ /\ Len(statements) >= 1
                 /\ pos >= ArrayClose(n, trailing) + 1
                 /\ get_stmt(ast, statements[1]).tag = "Expr"
                 /\ Tree(ast, get_stmt(ast, statements[1]).expr)
                       = <<"Array", [i \in 1..n |-> LeafTree(TokAt(2 * i))]>>
    /\ \A n \in 1..MaxElems :
          ElementUnclosed(n) =>
              \/ pos = 0 /\ pstate = "parsing"
              \/ /\ pstate = "err" /\ statements = <<>>
                 /\ pos = 2 * n
                 /\ perr = Expected("] or ,", tok_typ(TokAt(2 * n + 1)),
                                    tok_name(TokAt(2 * n + 1)), SpanOf(2 * n))

\* [1, 2, 3,];  has been parsed: one statement, the array of 1, 2 and 3.
C15_Witness ==
    /\ pstate = "ok" /\ Len(statements) = 1 /\ Len(tokens) = 10
    /\ ArrayText(3, TRUE)
    /\ Tree(ast, get_stmt(ast, statements[1]).expr)
          = <<"Array", <<<<"Literal", "Int", "1">>, <<"Literal", "Int", "2">>,
                         <<"Literal", "Int", "3">>>>>>

\* The longest operator chain after an opening parenthesis the parenthesis
\* property speaks about.
MaxInner == 2

\* The list being parsed starts with ( u op u ... op u: m operators between
\* m + 1 operands of one token each.
ParenStart(m) ==
    /\ Len(tokens) >= 2 * m + 3
    /\ Kinds[1] = "LParen"
    /\ \A i \in 0..m : Kinds[2 * i + 2] \in UnitKinds
    /\ \A i \in 1..m : Kinds[2 * i + 1] \in InfixKinds

\* The list being parsed is the one statement  ( x op1 y ) op2 z ;
ParenLeft ==
    /\ Len(tokens) = 9 /\ ParenStart(1)
    /\ Kinds[5] = "RParen" /\ Kinds[6] \in InfixKinds /\ Kinds[7] \in UnitKinds
    /\ Kinds[8] = "Eol"

\* The list being parsed is the one statement  z op2 ( x op1 y ) ;
ParenRight ==
    /\ Len(tokens) = 9
    /\ Kinds[1] \in UnitKinds /\ Kinds[2] \in InfixKinds /\ Kinds[3] = "LParen"
    /\ Kinds[4] \in UnitKinds /\ Kinds[5] \in InfixKinds /\ Kinds[6] \in UnitKinds
    /\ Kinds[7] = "RParen" /\ Kinds[8] = "Eol"

\* The tree of the one expression statement parsed.
OnlyTree == Tree(ast, get_stmt(ast, statements[1]).expr)

\* C16: parentheses create no node.  ( x op1 y ) op2 z  parses as
\* Op(Op(x, op1, y), op2, z) whatever the rows of the operators are, and
\* z op2 ( x op1 y )  as Op(z, op2, Op(x, op1, y)), with five nodes in the
\* arena; () yields an Empty node; a ( whose expression is not followed by
\* ) yields SyntaxError::Expected ")" at the token found there.
C16_Parentheses ==
    /\ (ParenLeft /\ pstate = "ok") =>
          /\ Len(statements) = 1 /\ Len(ast.exprs) = 5
          /\ OnlyTree = <<"Op", <<"Op", LeafTree(TokAt(2)), Kinds[3], LeafTree(TokAt(4))>>,
                          Kinds[6], LeafTree(TokAt(7))>>
    /\ (ParenRight /\ pstate = "ok") =>
          /\ Len(statements) = 1 /\ Len(ast.exprs) = 5
          /\ OnlyTree = <<"Op", LeafTree(TokAt(1)), Kinds[2],
                          <<"Op", LeafTree(TokAt(4)), Kinds[5], LeafTree(TokAt(6))>>>>
    /\ (ParenLeft \/ ParenRight) => pstate \in {"parsing", "ok"}
    /\ (Len(tokens) = 4 /\ Kinds = <<"LParen", "RParen", "Eol", "Eof">> /\ pstate # "parsing") =>
          /\ pstate = "ok" /\ Len(statements) = 1 /\ Len(ast.exprs) = 1
          /\ OnlyTree = <<"Empty">>
    /\ \A m \in 0..MaxInner :
          (/\ ParenStart(m)
           /\ Kinds[2 * m + 3] \notin {"RParen", "LSqBracket"} \cup InfixKinds
           /\ pstate # "parsing") =>
              /\ pstate = "err" /\ statements = <<>>
              /\ pos = 2 * m + 2
              /\ perr = Expected(")", tok_typ(TokAt(2 * m + 3)), tok_name(TokAt(2 * m + 3)),
                                 SpanOf(2 * m + 2))

\* (a + b) * c;  has been parsed: the + node is the left child of the *
\* node, and the arena holds the five nodes a, b, +, c and *.
C16_Witness ==
    /\ pstate = "ok" /\ ParenLeft /\ Len(ast.exprs) = 5
    /\ OnlyTree = <<"Op", <<"Op", <<"Var", "a">>, "Plus", <<"Var", "b">>>>,
                    "Mult", <<"Var", "c">>>>

\* C17: executing a reserved opcode makes execute end with the error value
\* RuntimeError::Unimplemented that carries the instruction and its area;
\* no instruction after it is executed.
C17_Reserved ==
    /\ [][Fetch(ReservedOps) =>
            /\ estate' = "err"
            /\ eerr' = Unimplemented(Instr, get_bytecode_area(ip))
            /\ ip' = ip /\ stack' = stack /\ memory' = memory /\ output' = output]_vars
    /\ [][(estate # "running" /\ ip < Len(code.instructions) /\ Instr.op \in ReservedOps) =>
            UNCHANGED vars]_vars

\* The pops MakeMacro makes for the descriptors of descs whose index is in S.
PopsOf(descs, S) ==
    Cardinality({i \in S : descs[i].def}) + Cardinality({i \in S : descs[i].typ})

\* v is what the d-th pop of the instruction at i reads: a value that a read
\* through the d-th stack entry from the top may give.
WasRead(d, v) ==
    \E x \in Deref(memory, stack[Len(stack) + 1 - d]) : x.st = "ok" /\ x.v = v

\* The argument arg of a macro is built for the descriptor desc from the
\* pops that follow the before-th: the default if the descriptor has one,
\* then the type pattern if it has one.
BuiltFor(arg, desc, before) ==
    /\ arg.name = desc.name
    /\ IF desc.def THEN arg.def.some /\ WasRead(before + 1, arg.def.val)
       ELSE arg.def = None
    /\ IF desc.typ
       THEN arg.typ.some /\ WasRead(before + 1 + (IF desc.def THEN 1 ELSE 0), arg.typ.val)
       ELSE arg.typ = None

\* MakeMacro(id) makes exactly 1 + #has_default + #has_type pops, the first
\* of them for the return type, and pushes one Macro of macro_build_info[id]
\* with an argument per descriptor.
MakeMacroBuilds ==
    LET info  == code.macro_build_info[Instr.arg]
        pops  == 1 + PopsOf(info.arg_info, 1..Len(info.arg_info))
        new   == Len(memory.slots) + 1
    IN  /\ Len(stack) >= pops
        /\ Len(stack') = Len(stack) - pops + 1
        /\ SubSeq(stack', 1, Len(stack) - pops) = SubSeq(stack, 1, Len(stack) - pops)
        /\ stack'[Len(stack')].idx = new
        /\ Len(memory'.slots) = new
        /\ SubSeq(memory'.slots, 1, new - 1) = memory.slots
        /\ memory'.slots[new].value.t = "Macro"
        /\ memory'.slots[new].value.func_id = info.func_id
        /\ WasRead(1, memory'.slots[new].value.ret_type)
        /\ Len(memory'.slots[new].value.args) = Len(info.arg_info)

\* The Macro a MakeMacro step pushes, and the descriptors it is built from.
MacroBuilt == memory'.slots[Len(memory.slots) + 1].value
Descs == code.macro_build_info[Instr.arg].arg_info

\* C18 as claimed: the last descriptor of the list pops first, and the args
\* list of the Macro is in the order of the descriptor list.
C18_Original ==
    [][(Fetch({"MakeMacro"}) /\ estate' = "running") =>
          /\ MakeMacroBuilds
          /\ \A j \in 1..Len(Descs) :
                BuiltFor(MacroBuilt.args[j], Descs[j],
                         1 + PopsOf(Descs, (j + 1)..Len(Descs)))]_vars

\* C18: MakeMacro(id) pops the return-type pattern first, then per
\* descriptor of macro_build_info[id] a default if has_default and then a
\* type pattern if has_type, the first descriptor of the list popping first;
\* it makes exactly 1 + #has_default + #has_type pops and pushes one Macro
\* whose args list is the descriptor list reversed, each argument carrying
\* the default and the type popped for it.
C18_MakeMacro ==
    [][(Fetch({"MakeMacro"}) /\ estate' = "running") =>
          /\ MakeMacroBuilds
          /\ \A j \in 1..Len(Descs) :
                BuiltFor(MacroBuilt.args[Len(Descs) + 1 - j], Descs[j],
                         1 + PopsOf(Descs, 1..(j - 1)))]_vars

\* The macro of the descriptors a (type, default) and b (default) has been
\* built from the pushes 2, @int, 1 and the pattern: b comes first in its
\* args and has the default 2, a has the type @int and the default 1.
C18_Witness ==
    /\ code = ProgMacro /\ Len(contexts) = 1 /\ estate = "running" /\ ip = 9
    /\ Len(stack) = 1
    /\ Pushed(stack[1]).value.t = "Macro"
    /\ Pushed(stack[1]).value.ret_type.value = PatternAnyV
    /\ [j \in 1..2 |-> Pushed(stack[1]).value.args[j].name] = <<"b", "a">>
    /\ Pushed(stack[1]).value.args[1].def.val.value = IntV(2)
    /\ Pushed(stack[1]).value.args[1].typ = None
    /\ Pushed(stack[1]).value.args[2].def.val.value = IntV(1)
    /\ Pushed(stack[1]).value.args[2].typ.val.value = TypeIndicatorV("Int")

\* The number of entries among the first k of a parameter list that are the
\* empty name.
Unnamed(param_list, k) == Cardinality({i \in 1..k : param_list[i] = ""})

\* C19: Call(id) pops the base first.  If the base is not a Macro, execute
\* returns CannotCall{base, area} and has popped nothing but the base.  If
\* it is a Macro, exactly |name_sets[id]| further values are popped, one per
\* entry in list order: into the positional list when the entry is the empty
\* name, into the named-parameter map under that name otherwise.
C19_Call ==
    [][(Fetch({"Call"}) /\ Len(stack) >= 1) =>
          LET param_list == code.name_sets[Instr.arg]
              n          == Len(param_list)
              is_macro   == \E base \in Deref(memory, Top(stack)) :
                                base.st = "ok" /\ base.v.value.t = "Macro"
          IN  /\ memory' = memory /\ output' = output
              /\ estate' \in {"err", "panic", "crash"}
              /\ estate' = "err" =>
                    /\ \E base \in Deref(memory, Top(stack)) :
                          /\ base.st = "ok" /\ base.v.value.t # "Macro"
                          /\ eerr' = CannotCall(base.v, get_bytecode_area(ip))
                    /\ stack' = Pop1(stack)
              /\ (~Dangling(memory, Top(stack)) /\ Pushed(Top(stack)).value.t # "Macro") =>
                    /\ estate' = "err"
                    /\ eerr' = CannotCall(Pushed(Top(stack)), get_bytecode_area(ip))
              /\ (estate' = "panic" /\ eerr' # NoError) =>
                    /\ is_macro
                    /\ Len(stack) >= n + 1
                    /\ stack' = SubSeq(stack, 1, Len(stack) - (n + 1))
                    /\ Len(eerr'.params) = Unnamed(param_list, n)
                    /\ \A k \in 1..n :
                          IF param_list[k] = ""
                          THEN WasRead(k + 1, eerr'.params[Unnamed(param_list, k)])
                          ELSE \/ \E j \in (k + 1)..n : param_list[j] = param_list[k]
                               \/ \E e \in eerr'.named_params :
                                     e.key = param_list[k] /\ WasRead(k + 1, e.val)
                    /\ \A e \in eerr'.named_params :
                          e.key # "" /\ \E k \in 1..n : param_list[k] = e.key
              /\ (/\ Len(stack) >= n + 1
                  /\ \A d \in 1..(n + 1) : ~Dangling(memory, stack[Len(stack) + 1 - d])
                  /\ Pushed(Top(stack)).value.t = "Macro") =>
                    (estate' = "panic" /\ eerr' # NoError)]_vars

\* f(1, x = 2, 3)  on a macro f has popped the macro and the three values:
\* 3 and 1 are the positional values, in the order of their pops, and x
\* has the value 2.
C19_Witness ==
    /\ code = ProgCall /\ Len(contexts) = 1 /\ ip = 7
    /\ estate = "panic" /\ stack = <<>>
    /\ [k \in 1..2 |-> eerr.params[k].value] = <<IntV(3), IntV(1)>>
    /\ {[key |-> e.key, val |-> e.val.value] : e \in eerr.named_params}
          = {[key |-> "x", val |-> IntV(2)]}

\* The type names Globals::init registers.
SeededNames == {"int", "float", "string", "bool", "empty", "array", "dictionary", "maybe",
                "type_indicator", "pattern", "group", "trigger_function", "macro"}

\* C20: execution aborts at the first runtime error.  An instruction that
\* fails (TypeMismatch from a value-op or to_bool, UndefinedType from a
\* LoadType on a name that is not one of the 13 seeded names, CannotCall
\* from a Call) makes execute return that error at once: nothing is pushed
\* for it, no later instruction is executed, nothing is printed afterwards
\* (the stack dump included), and the heap entries allocated before remain.
C20_AbortAtFirstError ==
    /\ [][(estate = "running" /\ estate' = "err") =>
            /\ ip < Len(code.instructions) /\ ip' = ip
            /\ memory' = memory /\ contexts' = contexts /\ output' = output
            /\ Len(stack') <= Len(stack)
            /\ stack' = SubSeq(stack, 1, Len(stack'))
            /\ eerr'.area = get_bytecode_area(ip) \/ Instr.op = "JumpIfFalse"
            /\ CASE eerr'.kind = "TypeMismatch" ->
                       Instr.op \in BinaryOps \cup {"Negate", "Not", "JumpIfFalse"}
                 [] eerr'.kind = "UndefinedType" ->
                       /\ Instr.op = "LoadType" /\ stack' = stack
                       /\ eerr'.name = code.names[Instr.arg]
                       /\ eerr'.name \notin SeededNames
                 [] eerr'.kind = "CannotCall" -> Instr.op = "Call"
                 [] OTHER -> FALSE]_vars
    /\ [][estate = "err" => UNCHANGED vars]_vars
    /\ [][Fetch({"LoadType"}) =>
            IF code.names[Instr.arg] \in SeededNames
            THEN estate' = "running" /\ Len(stack') = Len(stack) + 1
            ELSE estate' = "err"]_vars
    /\ [][(/\ Fetch(BinaryOps \ {"Eq", "NotEq"}) /\ Len(stack) >= 2
           /\ ~Dangling(memory, Top(stack)) /\ ~Dangling(memory, Top(Pop1(stack)))
           /\ Pushed(Top(stack)).value.t # Pushed(Top(Pop1(stack))).value.t) =>
            (estate' = "err" /\ eerr'.kind = "TypeMismatch")]_vars
    /\ [][(/\ Fetch({"JumpIfFalse"}) /\ Len(stack) >= 1
           /\ ~Dangling(memory, Top(stack)) /\ Pushed(Top(stack)).value.t # "Bool") =>
            (estate' = "err" /\ eerr'.kind = "TypeMismatch")]_vars
    /\ [](estate = "err" => \A k \in 1..Len(output) : output[k].by = "Print")
    /\ []((estate = "err" /\ code = ProgMismatch /\ Len(contexts) = 1) =>
            /\ output = <<PrintLine("1")>>
            /\ ip = 4 /\ stack = <<>> /\ Len(memory.slots) = 3)

\* print(1); 1 + true; print(2);  has failed at the +: the first print has
\* written its line, the second has not, nothing was pushed for the +, and
\* the three heap entries allocated before are still there.
C20_Witness ==
    /\ code = ProgMismatch /\ Len(contexts) = 1 /\ estate = "err"
    /\ eerr.kind = "TypeMismatch" /\ eerr.area = get_bytecode_area(4)
    /\ ip = 4 /\ stack = <<>>
    /\ output = <<PrintLine("1")>>
    /\ [k \in 1..3 |-> memory.slots[k].value] = <<IntV(1), IntV(1), BoolV(TRUE)>>

(***************************************************************************)
(*                        PROPERTIES OF THE ARENA                          *)
(***************************************************************************)

\* The ExprKeys an expression node stores, the ExprKeys a statement node
\* stores, and the StmtKeys a statement node stores.
RECURSIVE Flatten(_)
Flatten(seqs) == IF seqs = <<>> THEN <<>> ELSE Head(seqs) \o Flatten(Tail(seqs))

ExprKeysOf(n) ==
    CASE n.tag = "Op"    -> <<n.left, n.right>>
      [] n.tag = "Unary" -> <<n.expr>>
      [] n.tag = "Array" -> n.elems
      [] n.tag = "Index" -> <<n.base, n.index>>
      [] OTHER           -> <<>>

StmtExprKeys(s) ==
    CASE s.tag \in {"Expr", "Declaration"} -> <<s.expr>>
      [] s.tag = "If"    -> [i \in 1..Len(s.branches) |-> s.branches[i].cond]
      [] s.tag = "While" -> <<s.cond>>
      [] s.tag = "For"   -> <<s.iterator>>

StmtStmtKeys(s) ==
    CASE s.tag \in {"Expr", "Declaration"} -> <<>>
      [] s.tag = "If"    -> Flatten([i \in 1..Len(s.branches) |-> s.branches[i].code])
                            \o (IF s.else_branch.some THEN s.else_branch.val ELSE <<>>)
      [] s.tag \in {"While", "For"} -> s.code

\* C21: the arena is append-only during a parse.  A key that insert_expr or
\* insert_stmt has returned resolves to the same (node, area) after every
\* later insertion, the parser removes and overwrites nothing, also when
\* the parse ends in a SyntaxError, and no key is returned twice: the keys
\* a node stores were all returned before the node's own key.
C21_AppendOnly ==
    /\ [][/\ Len(ast'.exprs) >= Len(ast.exprs)
          /\ SubSeq(ast'.exprs, 1, Len(ast.exprs)) = ast.exprs
          /\ Len(ast'.stmts) >= Len(ast.stmts)
          /\ SubSeq(ast'.stmts, 1, Len(ast.stmts)) = ast.stmts]_vars
    /\ [](\A k \in 1..Len(ast.exprs) :
            \A i \in 1..Len(ExprKeysOf(get_expr(ast, k))) :
                ExprKeysOf(get_expr(ast, k))[i] \in 1..(k - 1))
    /\ [](\A k \in 1..Len(ast.stmts) :
            /\ \A i \in 1..Len(StmtStmtKeys(get_stmt(ast, k))) :
                  StmtStmtKeys(get_stmt(ast, k))[i] \in 1..(k - 1)
            /\ \A i \in 1..Len(StmtExprKeys(get_stmt(ast, k))) :
                  StmtExprKeys(get_stmt(ast, k))[i] \in 1..Len(ast.exprs))

\* let x = a + 1; followed by a statement that fails: the three expression
\* nodes and the statement node of the declaration are still in the arena.
C21_Witness ==
    /\ pstate = "err" /\ Len(statements) = 1
    /\ Len(ast.stmts) = 1 /\ Len(ast.exprs) >= 3
    /\ get_stmt(ast, 1).tag = "Declaration"
    /\ Tree(ast, get_stmt(ast, 1).expr)
          = <<"Op", <<"Var", "a">>, "Plus", <<"Literal", "Int", "1">>>>

\* Every occurrence of an ExprKey in a node or a statement, and every
\* occurrence of a StmtKey in a statement or in the returned list.
ExprRefs ==
    Flatten([k \in 1..Len(ast.exprs) |-> ExprKeysOf(get_expr(ast, k))])
    \o Flatten([k \in 1..Len(ast.stmts) |-> StmtExprKeys(get_stmt(ast, k))])
StmtRefs ==
    Flatten([k \in 1..Len(ast.stmts) |-> StmtStmtKeys(get_stmt(ast, k))]) \o statements

Injective(seq) == \A i, j \in 1..Len(seq) : seq[i] = seq[j] => i = j

\* C22: after a successful parse every key stored in the returned list or
\* in a node resolves in the arena and is stored in exactly one place, and
\* a node stores only keys of nodes inserted before it: the result is a
\* tree, never a shared DAG or a cycle.
C22_Tree ==
    pstate = "ok" =>
        /\ \A i \in 1..Len(ExprRefs) : ExprRefs[i] \in 1..Len(ast.exprs)
        /\ \A i \in 1..Len(StmtRefs) : StmtRefs[i] \in 1..Len(ast.stmts)
        /\ Injective(ExprRefs) /\ Injective(StmtRefs)
        /\ \A k \in 1..Len(ast.exprs) :
              \A i \in 1..Len(ExprKeysOf(get_expr(ast, k))) :
                  ExprKeysOf(get_expr(ast, k))[i] < k
        /\ \A k \in 1..Len(ast.stmts) :
              \A i \in 1..Len(StmtStmtKeys(get_stmt(ast, k))) :
                  StmtStmtKeys(get_stmt(ast, k))[i] < k

\* if a { b; } else if c { } else { } d;  has been parsed: the two
\* statements of the list, the statement of the block and the four
\* expressions are each stored in one place.
C22_Witness ==
    /\ pstate = "ok" /\ Len(statements) = 2
    /\ get_stmt(ast, statements[1]).tag = "If"
    /\ Len(get_stmt(ast, statements[1]).branches) = 2
    /\ get_stmt(ast, statements[1]).else_branch.some
    /\ Len(ast.exprs) = 4 /\ Len(ExprRefs) = 4
    /\ Len(ast.stmts) = 3 /\ Len(StmtRefs) = 3

\* C23: LoadVar(id) pushes the key bound to id and allocates nothing, so
\* two successive LoadVar(x) push the same key; a binary or a unary opcode
\* leaves the heap entries of its operands, and every other entry, as they
\* are and puts its result in a new entry.
C23_LoadVarShares ==
    /\ [][(Fetch({"LoadVar"}) /\ estate' = "running") =>
            /\ memory' = memory /\ contexts' = contexts
            /\ Len(stack') = Len(stack) + 1
            /\ SubSeq(stack', 1, Len(stack)) = stack
            /\ stack'[Len(stack')].idx = get_var(contexts[ctx], Instr.arg)
            /\ ~Dangling(memory', stack'[Len(stack')])]_vars
    /\ [][(/\ Fetch({"LoadVar"}) /\ estate' = "running"
           /\ ip >= 1 /\ code.instructions[ip] = Instr /\ Len(stack) >= 1
           /\ \A d \in 1..Len(code.destinations) : code.destinations[d] # ip) =>
            stack'[Len(stack')] = Top(stack)]_vars
    /\ [][Fetch(BinaryOps \cup {"Negate", "Not"}) =>
            /\ SubSeq(memory'.slots, 1, Len(memory.slots)) = memory.slots
            /\ contexts' = contexts
            /\ estate' = "running" =>
                  /\ Len(memory'.slots) = Len(memory.slots) + 1
                  /\ stack'[Len(stack')].idx = Len(memory.slots) + 1]_vars

\* let x = 10; x + x;  has run: both operands of the + were the key of x,
\* which still holds 10, and the sum is in a new entry.
C23_Witness ==
    /\ code = ProgShare /\ Len(contexts) = 1 /\ estate = "running" /\ ip = 5
    /\ get_var(contexts[1], 1) = 2
    /\ memory.slots[2].value = IntV(10)
    /\ Len(memory.slots) = 3 /\ memory.slots[3].value = IntV(20)
    /\ Len(stack) = 1 /\ stack[1].idx = 3

\* C24: BuildArray(n) pops exactly n values and pushes one Array whose
\* element k is a copy of the k-th of those values in the order of their
\* pushes; BuildArray(0) pops nothing and pushes an empty Array.
C24_BuildArray ==
    [][(Fetch({"BuildArray"}) /\ estate' = "running") =>
          LET n   == Instr.arg
              new == Len(memory.slots) + 1
          IN  /\ Len(stack) >= n
              /\ Len(stack') = Len(stack) - n + 1
              /\ SubSeq(stack', 1, Len(stack) - n) = SubSeq(stack, 1, Len(stack) - n)
              /\ stack'[Len(stack')].idx = new
              /\ Len(memory'.slots) = new
              /\ SubSeq(memory'.slots, 1, new - 1) = memory.slots
              /\ memory'.slots[new].value.t = "Array"
              /\ Len(memory'.slots[new].value.elems) = n
              /\ \A k \in 1..n :
                    /\ \E d \in Deref(memory, NthPushed(k, n)) :
                          d.st = "ok" /\ memory'.slots[new].value.elems[k] = d.v
                    /\ ~Dangling(memory, NthPushed(k, n)) =>
                          memory'.slots[new].value.elems[k] = Pushed(NthPushed(k, n))]_vars

\* [1, 2, 3];  has run: the array holds 1, 2 and 3 in this order, each a
\* copy that kept the area of its constant.
C24_Witness ==
    /\ code = ProgArray /\ Len(contexts) = 1 /\ estate = "running" /\ ip = 4
    /\ Len(stack) = 1 /\ stack[1].idx = 4
    /\ memory.slots[4].value.elems = <<memory.slots[1], memory.slots[2], memory.slots[3]>>
    /\ [k \in 1..3 |-> memory.slots[k].value] = <<IntV(1), IntV(2), IntV(3)>>

\* The opcodes the stack discipline lists, and for an instruction of one of
\* them the entries it pops and the change of the stack size it makes.
Disciplined ==
    {"LoadConst", "LoadVar", "LoadType", "PushEmpty", "PushAnyPattern", "Negate", "Not",
     "Jump", "EnterScope", "ExitScope", "MergeContexts", "SetVar", "Print", "PopTop",
     "JumpIfFalse", "BuildArray", "BuildDict"} \cup BinaryOps

Needs(ins) ==
    CASE ins.op \in BinaryOps -> 2
      [] ins.op \in {"Negate", "Not", "SetVar", "Print", "PopTop", "JumpIfFalse"} -> 1
      [] ins.op = "BuildArray" -> ins.arg
      [] ins.op = "BuildDict" -> Len(code.name_sets[ins.arg])
      [] OTHER -> 0

Delta(ins) ==
    CASE ins.op \in {"LoadConst", "LoadVar", "LoadType", "PushEmpty", "PushAnyPattern"} -> 1
      [] ins.op \in {"Negate", "Not", "Jump", "EnterScope", "ExitScope", "MergeContexts"} -> 0
      [] ins.op \in BinaryOps \cup {"SetVar", "Print", "PopTop", "JumpIfFalse"} -> -1
      [] ins.op = "BuildArray" -> 1 - ins.arg
      [] ins.op = "BuildDict" -> 1 - Len(code.name_sets[ins.arg])

\* The stack size after the first j instructions of a program without
\* jumps, each changing it by its amount.
RECURSIVE SizeAfter(_)
SizeAfter(j) == IF j = 0 THEN 0 ELSE SizeAfter(j - 1) + Delta(code.instructions[j])

\* The first j instructions are of the listed opcodes, none is a jump, and
\* each finds on the stack the entries it pops.
Straight(j) ==
    \A i \in 1..j :
        /\ code.instructions[i].op \in Disciplined \ {"Jump", "JumpIfFalse"}
        /\ SizeAfter(i - 1) >= Needs(code.instructions[i])

\* C25 as claimed: every listed opcode that completes without error changes
\* the stack size by its amount, PopTop by -1.
C25_Original ==
    [][(Fetch(Disciplined) /\ estate' = "running") =>
          Len(stack') = Len(stack) + Delta(Instr)]_vars

\* C25: every listed opcode that completes without error changes the stack
\* size by its amount, PopTop by -1 on a stack that is not empty and by 0 on
\* an empty one; so in a program without jumps whose instructions each find
\* the entries they pop, the stack size after j instructions is the sum of
\* their amounts.
C25_StackDiscipline ==
    /\ [][(Fetch(Disciplined) /\ estate' = "running") =>
            Len(stack') = Len(stack) + (IF Instr.op = "PopTop" /\ stack = <<>>
                                        THEN 0 ELSE Delta(Instr))]_vars
    /\ []((estate = "running" /\ ctx = 1 /\ Straight(ip)) => Len(stack) = SizeAfter(ip))

\* print(1); print(2 < 3); print(!true); -5;  has run its eleven
\* instructions: the one result that was not popped is on the stack.
C25_Witness ==
    /\ code = ProgPrints /\ estate = "running" /\ ctx = 1 /\ ip = 11
    /\ Straight(11) /\ SizeAfter(11) = 1 /\ Len(stack) = 1

\* The source text is  - u op u ... op u ;  with n infix operators.
NegChain(n) ==
    /\ Len(tokens) = 2 * n + 4
    /\ Kinds[1] = "Minus"
    /\ \A i \in 1..(n + 1) : Kinds[2 * i] \in UnitKinds
    /\ \A i \in 1..n : Kinds[2 * i + 1] \in InfixKinds
    /\ Kinds[2 * n + 3] = "Eol"
    /\ Kinds[2 * n + 4] = "Eof"

\* The operators of a chain right after its first operand that belong to a
\* row above the row of the unary minus: the first m of them.
Absorbed(n) ==
    Max({m \in 0..n : \A i \in 1..m : RowOf(Kinds[2 * i + 1]) > 1})

\* The keys of the Unary nodes in the arena.
UnaryKeys == {k \in 1..Len(ast.exprs) : get_expr(ast, k).tag = "Unary"}

\* C26: the operand of a unary minus is parsed at row 2, the first row
\* above its own that is not a unary row: it takes in the * / % and ^
\* operators that follow and stops before the first + or -.  So the Unary
\* node of  - u op u ... op u  spans the operands up to the first operator
\* of row 0, and is the root when there is none;  -3+4  is
\* Op(Unary(-, 3), +, 4)  and  -3*4  is  Unary(-, Op(3, *, 4)).
C26_UnaryRow ==
    /\ unary_prec(TMinus) = 1 /\ prec_type(2) # "Unary"
    /\ \A n \in 0..MaxOps :
          (NegChain(n) /\ pstate = "ok") =>
              /\ Len(statements) = 1
              /\ \E k \in UnaryKeys :
                    /\ UnaryKeys = {k}
                    /\ area(ast, k) = <<0, SpanOf(2 * Absorbed(n) + 1)[2]>>
                    /\ Absorbed(n) = 0 => Tree(ast, get_expr(ast, k).expr) = Leaf(TokAt(2))
                    /\ Absorbed(n) > 0 => get_expr(ast, get_expr(ast, k).expr).tag = "Op"
                    /\ Absorbed(n) = n <=> get_stmt(ast, statements[1]).expr = k
              /\ Absorbed(n) < n =>
                    /\ Root1[1] = "Op"
                    /\ RowOf(Root1[3]) = 0
    /\ (pstate = "ok" /\ Len(tokens) = 6 /\ TokAt(1) = TMinus /\ TokAt(2) = TInt("3")
          /\ TokAt(4) = TInt("4") /\ TokAt(5) = TEol) =>
            /\ TokAt(3) = TPlus => Root1 = OpT(NegT(Leaf(TInt("3"))), TPlus, Leaf(TInt("4")))
            /\ TokAt(3) = TMult => Root1 = NegT(OpT(Leaf(TInt("3")), TMult, Leaf(TInt("4"))))

\* -3*4;  has been parsed: the root is the Unary node, its operand the
\* product.
C26_Witness ==
    /\ pstate = "ok" /\ NegChain(1)
    /\ TokAt(2) = TInt("3") /\ TokAt(3) = TMult /\ TokAt(4) = TInt("4")
    /\ Root1 = <<"Unary", "Minus", <<"Op", <<"Literal", "Int", "3">>, "Mult",
                                     <<"Literal", "Int", "4">>>>>>

\* The tokens before the parser position, with the Eof token in the place
\* of the token at the position.
CutAtPos ==
    [i \in 1..(pos + 1) |->
        IF i = pos + 1 THEN [tok |-> TEof, span |-> tokens[i].span] ELSE tokens[i]]

\* The token at the parser position is a closing brace, with tokens after it.
AtStrayBrace ==
    /\ tok(tokens, pos, 0).k = "RBracket"
    /\ pos + 2 < Len(tokens)

\* C27: parse() returns Ok at the first closing brace at statement position
\* as it does at Eof: the position stays on the brace, no error is raised,
\* and the statements and the arena returned are those of the text that ends
\* right before the brace.
C27_StopsAtBrace ==
    pstate = "ok" =>
        /\ perr = NoError
        /\ tok(tokens, pos, 0).k \in {"Eof", "RBracket"}
        /\ \E r \in {parse_statements(CutAtPos, EmptyAST, 0)} :
              /\ r.st = "ok"
              /\ r.v = statements
              /\ r.pos = pos
              /\ r.ast = ast

\* parse() has returned Ok with one statement or more, at a closing brace
\* that other tokens follow.
C27_Witness ==
    /\ pstate = "ok"
    /\ AtStrayBrace
    /\ Len(statements) >= 1
    /\ perr = NoError

(***************************************************************************)
(*                       PROPERTIES OF THE CONTEXTS                        *)
(***************************************************************************)

\* The run passes from one context to another.
ContextSwitch == ctx' # ctx

\* The contexts are taken in the order of the enumeration, each with an
\* instruction index of its own that starts at 0.
InOrderFromZero ==
    [][ContextSwitch => (ctx' = ctx + 1 /\ ip' = 0)]_vars

\* C28: the contexts of globals.contexts are run in the order of the
\* enumeration, each with its own instruction index that starts at 0, and
\* the run of a context finds on the operand stack no entry that the run of
\* an earlier context pushed.
C28_Contexts ==
    [][ContextSwitch => (ctx' = ctx + 1 /\ ip' = 0 /\ stack' = <<>>)]_vars

(***************************************************************************)
(*                       PROPERTIES OF run_func()                          *)
(***************************************************************************)

\* The contexts that have run an instruction in the pass.
RanContexts == {ran[k].c : k \in 1..Len(ran)}

\* Every instruction run in the pass was run for a context that had not
\* returned when the pass began, at the position the context had then, and
\* no context has run two.
OwnPos ==
    \A k \in 1..Len(ran) :
        /\ ran[k].c \in SkipReturns(startOf)
        /\ ran[k].at = startOf[ran[k].c].pos
        /\ ran[k].instr = instructions[ran[k].at + 1]
        /\ \A j \in 1..(k - 1) : ran[j].c < ran[k].c

\* The pass has run one instruction for every context that had not returned.
PassComplete == OwnPos /\ RanContexts = SkipReturns(startOf)

\* The pass has run one instruction for every context up to the one the for
\* loop has reached.
PassSoFar == OwnPos /\ RanContexts = {c \in SkipReturns(startOf) : c <= cursor}

\* The reset on entry: every position is 0 and no context has returned, or
\* the assertion fails.
EntryResets ==
    rstate = "entry" =>
        /\ rstate' = "loop" => \A c \in 1..Len(full') : full'[c] = Context(0, None)
        /\ rstate' = "loop" <=> \A c \in 1..Len(full) : full[c].returned = None

\* A context is marked Implicit when its position after the increment is at
\* or past the end of the list, and a context that has returned is left
\* alone.
MarksImplicit ==
    rstate \in {"loop", "pass_end"} =>
        \A c \in 1..Len(full) :
            /\ full[c].returned # None => full'[c] = full[c]
            /\ (full'[c] # full[c] /\ rstate' # "err"
                    /\ full'[c].returned # Some(Explicit)) =>
                   (full'[c].returned = Some(Implicit)
                        <=> full'[c].pos >= Len(instructions))

\* The loop is left.
LoopEnds == rstate \in {"loop", "pass_end"} /\ rstate' \notin {"loop", "pass_end"}

\* With an empty list the loop ends before any instruction is run and
\* before any context is marked.
EmptyEndsAtOnce ==
    instructions = <<>> =>
        /\ rstate \notin {"pass_end", "err"}
        /\ ran = <<>>
        /\ rstate \in {"loop", "after", "cleaned", "ok"} =>
               /\ Len(full) = Len(startOf)
               /\ \A c \in 1..Len(full) : full[c] = Context(0, None)

\* The statement without the error exit: every pass that stops has run one
\* instruction for every context that had not returned, and the loop is
\* left only after a pass that found no such context (or at once, with an
\* empty list).
C29_Original ==
    /\ [](rstate \in {"pass_end", "err"} => PassComplete)
    /\ []EmptyEndsAtOnce
    /\ [][EntryResets /\ MarksImplicit]_vars
    /\ [][LoopEnds => (instructions = <<>> \/ (ran = <<>> /\ SkipReturns(startOf) = {}))]_vars

\* C29: run_func advances the contexts in lockstep.  After the reset every
\* context is at position 0 and none has returned; a pass runs, in the order
\* of the contexts, one instruction for every context that had not returned
\* when the pass began, the one at the position of that context; a context
\* whose position after the increment is at or past the end is marked
\* Implicit, and a context that has returned is never stepped again; the
\* loop is left after a pass exactly when that pass found no context to run,
\* at once when the list is empty, and, in the middle of a pass, when an
\* instruction function returns an error: the contexts after the failing
\* one are not run.
C29_Lockstep ==
    /\ [](rstate = "pass_end" => PassComplete)
    /\ [](rstate \in {"loop", "err"} => PassSoFar)
    /\ []EmptyEndsAtOnce
    /\ [][EntryResets /\ MarksImplicit]_vars
    /\ [][(rstate = "pass_end" /\ rstate' = "after")
              => (ran = <<>> /\ SkipReturns(startOf) = {})]_vars
    /\ [][(rstate = "pass_end" /\ rstate' = "loop") => ran # <<>>]_vars
    /\ [][rstate' = "err" =>
              (rstate = "loop" /\ ran' # <<>> /\ ran'[Len(ran')].instr.op = "Index")]_vars
    /\ [][rstate \notin {"ok", "err", "panic"}]_vars

\* A pass of two contexts is over in which the two were at different
\* positions, and one of them has just been marked Implicit.
C29_Witness ==
    /\ rstate = "pass_end"
    /\ Len(ran) = 2
    /\ ran[1].at # ran[2].at
    /\ \E c \in RanContexts : full[c].returned = Some(Implicit)
    /\ \E c \in RanContexts : full[c].returned = None

(***************************************************************************)
(*                     TERMINATION OF THE PARSER                           *)
(***************************************************************************)

\* The token list ends with its one Eof token.
OneEof ==
    /\ Len(tokens) >= 1
    /\ \A i \in 1..Len(tokens) : (tokens[i].tok = TEof) <=> (i = Len(tokens))

\* Tokens put after the Eof token of the list.
Beyond == {TIdent("z"), TEol, TRBracket, TRSq, TEof}

\* The parse of the token list with one token more after its Eof token.
WithBeyond(t) ==
    parse_statements(Append(tokens, [tok |-> t, span |-> SpanOf(Len(tokens))]), EmptyAST, 0)

\* parse() has returned, with Ok or with an error.
Returned == pstate \in {"ok", "err"}

\* C30: on a token list that ends with its one Eof token parse() returns
\* after at most as many passes of its loop as there are tokens before the
\* Eof token: every pass moves the position forward or returns, and the
\* position never passes the Eof token.  No token is read outside the
\* list, and a token after the Eof token changes nothing of the result.
C30_Terminates ==
    /\ [](OneEof /\ pos <= Len(tokens) - 1 /\ pstate # "panic")
    /\ [][pstate' = "parsing" => pos' > pos]_vars
    /\ [](Returned =>
             \A t \in Beyond : \E r \in {WithBeyond(t)} :
                 /\ r.st = pstate /\ r.pos = pos /\ r.ast = ast
                 /\ r.st = "ok" => r.v = statements
                 /\ r.st = "err" => r.err = perr)

\* parse() has returned an error at the Eof token of an array literal that
\* is not closed: the position is on the Eof token.
C30_Witness ==
    /\ pstate = "err"
    /\ pos = Len(tokens) - 1
    /\ perr.found = tok_name(TEof)
    /\ Len(ast.exprs) >= 2
    /\ TokAt(1) = TLSq

(***************************************************************************)
(*                     PROPERTIES OF THE EMPTY STACK                       *)
(***************************************************************************)

\* The opcodes other than PopTop whose arm pops.
UnwrappingOps ==
    BinaryOps \cup {"Negate", "Not", "SetVar", "Print", "JumpIfFalse", "BuildArray",
                    "BuildDict", "MakeMacro", "Call"}

\* The entries the arm of an instruction pops when it runs to its end.
Pops(ins) ==
    CASE ins.op = "MakeMacro" ->
             1 + PopsOf(code.macro_build_info[ins.arg].arg_info,
                        1..Len(code.macro_build_info[ins.arg].arg_info))
      [] ins.op = "Call" -> 1 + Len(code.name_sets[ins.arg])
      [] OTHER -> Needs(ins)

\* execute() goes on with the instruction after this one, nothing written
\* and nothing stored.
GoesOn ==
    /\ estate' = "running" /\ eerr' = eerr /\ ip' = ip + 1 /\ ctx' = ctx
    /\ memory' = memory /\ contexts' = contexts /\ output' = output

\* C31: PopTop removes the top entry of a stack that is not empty and does
\* nothing on an empty stack, and in both cases execute() goes on with the
\* next instruction without an error; every other popping opcode ends
\* execute() when the stack holds fewer entries than it pops, with a panic
\* at once when the stack is empty.
C31_PopTop ==
    /\ [][Fetch({"PopTop"}) =>
            /\ GoesOn
            /\ stack' = IF stack = <<>> THEN <<>> ELSE Pop1(stack)]_vars
    /\ [][(Fetch(UnwrappingOps) /\ Len(stack) < Pops(Instr)) =>
            /\ estate' \in {"panic", "crash", "err"}
            /\ output' = output
            /\ stack = <<>> => estate' = "panic"]_vars

\* PopTop was the first instruction, run on the empty stack: execute() is at
\* the second instruction, the stack still empty.
C31_Witness ==
    /\ estate = "running" /\ ctx = 1 /\ ip = 1
    /\ Len(code.instructions) >= 2
    /\ code.instructions[1].op = "PopTop"
    /\ code.instructions[2].op \in UnwrappingOps
    /\ stack = <<>> /\ eerr = NoError

=============================================================================
